---- MODULE Spec2Model ----
(***************************************************************************)
(* btcvm: the event-driven block builder (blockBuilder), the VM entry      *)
(* points that drive it (BuildBlock, WaitForEvent, Accept, Shutdown) and   *)
(* the gossip dedup set (UnifiedBTCSet), over an abstract ledger engine.   *)
(*                                                                         *)
(* Time is counted in units of 100ms.  Hashes are modelled by small        *)
(* integers.                                                               *)
(***************************************************************************)
EXTENDS Integers, Sequences, FiniteSets, Bags, TLC

\* ---- program constants (unit of time: 100ms) ----
txSubmitChannelSize == 1024
TargetBlockTime == 20
RetryDelay == 1
GossipItemTypeTx == 1
GossipItemTypeBlock == 2

\* ---- bounds of the model ----
MaxBuilds == 1
MaxCalls == 1
ToEngineCap == 1

\* The number of values of a byte, and the longest message a peer sends.
WireBase == 4
MaxData == 6

\* The number of times normal operation is entered, and the number of
\* Shutdown calls the host makes.
MaxStarts == 2
MaxShutdowns == 2

\* The widths of a transaction and of a block header in the engine's wire
\* encoding.
TxWidth == 2
HeaderWidth == 2

\* The number of elements past which the false-positive rate of the filter
\* exceeds BloomResetThreshold.
BloomMaxCount == 2

Genesis == 100
ZeroHash == 0
ZeroTime == 0

\* Transaction hashes, block hashes, the host engine's notifier thread (the
\* only caller of WaitForEvent), the callers of signalCanBuild.
Txs == {1, 2, 3}
Blocks == {Genesis + 1, Genesis + 2, Genesis + 3, Genesis + 4}
Waiters == {"notifier"}
Callers == {"listener", "build", "init"}

VARIABLES
  now,                          \* wall clock
  shutdown,                     \* vm.shutdownChan is closed
  mempool, confirmed,           \* engine: pending txs, txs on the best chain
  blockIndex, orphans, best,    \* engine: stored blocks, orphan pool, best block
  hasPendingTxs, lastBuildTime, lastBuildParentHash,
  txSubmitChan, toEngine,       \* buffered channels (number of queued messages)
  tasks,                        \* bag of live scheduleBlockBuild goroutines
  listener,                     \* awaitTxSubmissions goroutine
  sig,                          \* signalCanBuild calls between unlock and `go`
  build,                        \* the BuildBlock call in progress
  waiters,                      \* waitForEvent calls and their bridging goroutine
                                \* (blocked: the call was in a select when its
                                \* context was cancelled or shutdown was signalled)
  lastAccepted, preferred,      \* vm.lastAccepted, vm.preferred
  miningAddrs,                  \* vm.config.MiningAddrs
  vmcall,                       \* the last call of ParseBlock, Accept,
                                \* SetPreference or LastAccepted and its result;
                                \* acc: the block of the latest Accept, or the
                                \* best block found at initialization
  window,                       \* the current pending window: who opened it (by; at,
                                \* parent: the build attempt when BuildBlock did),
                                \* goroutines started for it, events coalesced into
                                \* it, notifications sent for it
  dropped,                      \* the last notification attempt found toEngine full
  builds, calls,                \* number of BuildBlock / WaitForEvent calls made
  bloom,                        \* UnifiedBTCSet.bloom: the ids marked known
  pushed,                       \* ids handed to the push gossiper
  last,                         \* the last call on the UnifiedBTCSet and its result
  salt,                         \* the salt of UnifiedBTCSet.bloom: its generation
  added,                        \* ids of the items for which Add returned success
  wire,                         \* the last call of the marshaller and its result
  txOrphans,                    \* engine: transactions held until their parent arrives
  blocksMu,                     \* vm.blocksMu: "free" or the call that holds it
  accepting,                    \* the BlockAdapter.Accept call in progress
  lock,                         \* UnifiedBTCSet.lock: "free" or the call that holds it
  adding,                       \* the UnifiedBTCSet.Add call in progress
  relays,                       \* bag of goroutines started by OnBlockRelay
  bootstrapped, stopped,        \* vm.bootstrapped, vm.stopped
  gossipCtx,                    \* vm.gossipCtx, the context vm.cancel cancels (0: nil)
  cancelled,                    \* the gossip contexts that have been cancelled
  shutdownWg,                   \* vm.shutdownWg: its counter
  loops,                        \* bag of gossip loop goroutines
  stopping                      \* the VM.Shutdown call in progress

engineVars == <<mempool, confirmed, blockIndex, orphans, best>>
flagVars == <<hasPendingTxs, lastBuildTime, lastBuildParentHash>>
histVars == <<window, dropped>>
vmVars == <<lastAccepted, preferred, miningAddrs, vmcall>>
gossipVars == <<bloom, pushed, last, salt, added, wire>>
lockVars == <<blocksMu, accepting>>
relayVars == <<lock, adding, relays>>
lifeVars == <<bootstrapped, stopped, gossipCtx, cancelled, shutdownWg, loops, stopping>>
concVars == <<lockVars, relayVars, lifeVars>>
vars == <<now, shutdown, engineVars, flagVars, txSubmitChan, toEngine,
          tasks, listener, sig, build, waiters, vmVars, histVars, builds, calls,
          gossipVars, txOrphans, concVars>>

\* No call has been made on the UnifiedBTCSet since the engine last changed
\* by another path.
NoCall == [op |-> "none"]

\* The salt gossip.NewBloomFilter draws for the filter it creates.
FirstSalt == 1

\* ids.ID(*hash): a conversion between two 32-byte array types.
hashToID(hash) == hash

\* chainhash.NewHash(id[:]): copies the 32 bytes; the length is always 32.
idToHash(id) == id

\* ------------------------------------------------------------------------
\* The ledger engine (capability interface of spec section 6)
\* ------------------------------------------------------------------------

\* Transactions the engine never accepts (fail validation).
InvalidTxs == {t \in Txs : t % 3 = 0}

\* Tx 2 spends an output of tx 1; every other tx spends confirmed outputs.
DepOf(t) == IF t = 2 THEN 1 ELSE 0

\* Block Genesis+3 is a competing child of genesis, every other block extends
\* its predecessor.
ParentOf(b) == IF b = Genesis + 3 THEN Genesis ELSE b - 1

\* Blocks the engine rejects as invalid.
InvalidBlocks == {Genesis + 4}

\* Transactions carried by a block.
BlockTxs(b) == IF b = Genesis + 1 THEN {1} ELSE IF b = Genesis + 2 THEN {2} ELSE {}

RECURSIVE Height(_)
Height(b) == IF b = Genesis THEN 0 ELSE 1 + Height(ParentOf(b))

RECURSIVE ChainTxs(_)
ChainTxs(b) == IF b = Genesis THEN {} ELSE BlockTxs(b) \cup ChainTxs(ParentOf(b))

HaveTransaction(pool, h) == h \in pool

MiningDescs(pool) == pool

\* processTransaction without orphan admission: the accepted list, or
\* <<>> with an error.
TxAcceptable(pool, conf, t) ==
  /\ t \in Txs \ InvalidTxs
  /\ t \notin pool
  /\ t \notin conf
  /\ DepOf(t) = 0 \/ DepOf(t) \in pool \cup conf

\* processOrphans: the held transactions the pool takes once t is in it.
processOrphans(e, t) ==
  {o \in e.txOrphans : DepOf(o) = t /\ o \notin InvalidTxs /\ o \notin e.confirmed}

\* processTransaction of an acceptable transaction: the engine state it
\* leaves and the list of newly accepted transactions it returns, t and the
\* held transactions that t makes acceptable.
ProcessTransaction(e, t) ==
  [engine |-> [e EXCEPT !.mempool = @ \cup {t} \cup processOrphans(e, t),
                        !.txOrphans = @ \ processOrphans(e, t)],
   accepted |-> {t} \cup processOrphans(e, t)]

\* haveBlock: known on any branch.
HaveBlock(index, h) == h \in index

\* processBlock outcome for a block the engine has not stored.
BlockOutcome(index, orph, tip, b) ==
  IF b \in InvalidBlocks \/ b \in index \/ b \in orph THEN "error"
  ELSE IF ParentOf(b) \notin index THEN "orphan"
  ELSE IF Height(b) > Height(tip) THEN "main"
  ELSE "side"

\* The engine's state as one value.
EngineState ==
  [mempool |-> mempool, confirmed |-> confirmed, blockIndex |-> blockIndex,
   orphans |-> orphans, best |-> best, txOrphans |-> txOrphans]

\* The engine stores block b, whose parent it knows: b becomes the best block
\* when it is higher than the current one, a side-branch block otherwise.
AcceptBlock(e, b) ==
  IF Height(b) > Height(e.best)
  THEN [e EXCEPT !.blockIndex = @ \cup {b}, !.best = b,
                 !.confirmed = ChainTxs(b),
                 !.mempool = (e.mempool \cup e.confirmed) \ ChainTxs(b)]
  ELSE [e EXCEPT !.blockIndex = @ \cup {b}]

\* The engine stores the orphans whose parent has become known.
RECURSIVE ProcessOrphans(_)
ProcessOrphans(e) ==
  LET ready == {o \in e.orphans : ParentOf(o) \in e.blockIndex}
  IN IF ready = {} THEN e
     ELSE LET o == CHOOSE x \in ready : TRUE
          IN ProcessOrphans(AcceptBlock([e EXCEPT !.orphans = @ \ {o}], o))

\* processBlock(block, flags): the engine state it leaves.
ProcessBlock(e, b) ==
  LET outcome == BlockOutcome(e.blockIndex, e.orphans, e.best, b)
  IN IF outcome = "error" THEN e
     ELSE IF outcome = "orphan" THEN [e EXCEPT !.orphans = @ \cup {b}]
     ELSE ProcessOrphans(AcceptBlock(e, b))

\* ------------------------------------------------------------------------
\* blockBuilder
\* ------------------------------------------------------------------------

needToBuild == Cardinality(MiningDescs(mempool)) > 0

\* time.Time.Add
TimeAdd(t, d) == t + d

\* calculateBuildingDelay without the retry case: the target interval is
\* always applied.
calculateBuildingDelay_noRetry(currentBlockHash) ==
  IF lastBuildTime = ZeroTime THEN 0
  ELSE LET remainingDelay == TimeAdd(lastBuildTime, TargetBlockTime) - now
       IN IF remainingDelay < 0 THEN 0 ELSE remainingDelay

\* calculateBuildingDelay without the clamp of a negative remaining delay.
calculateBuildingDelay_unclamped(currentBlockHash) ==
  IF lastBuildTime = ZeroTime THEN 0
  ELSE LET isRetry == lastBuildParentHash = currentBlockHash
           nextBuildTime == IF isRetry THEN TimeAdd(lastBuildTime, RetryDelay)
                            ELSE TimeAdd(lastBuildTime, TargetBlockTime)
       IN nextBuildTime - now

calculateBuildingDelay(currentBlockHash) ==
  IF lastBuildTime = ZeroTime THEN 0
  ELSE LET isRetry == lastBuildParentHash = currentBlockHash
           nextBuildTime == IF isRetry THEN TimeAdd(lastBuildTime, RetryDelay)
                            ELSE TimeAdd(lastBuildTime, TargetBlockTime)
           remainingDelay == nextBuildTime - now
       IN IF remainingDelay < 0 THEN 0 ELSE remainingDelay

\* sync.Cond.Broadcast on pendingSignal: every goroutine parked in Wait is
\* made runnable; a goroutine that has not reached Wait is not affected.
Broadcast(ws) ==
  [w \in Waiters |-> IF ws[w].bridge = "waiting"
                     THEN [ws[w] EXCEPT !.bridge = "woken"] ELSE ws[w]]

\* onTxAccepted: non-blocking send on txSubmitChan.
onTxAccepted(ch) == IF ch < txSubmitChannelSize THEN ch + 1 ELSE ch

\* The callback fired once for each of n accepted transactions.
RECURSIVE onTxAcceptedEach(_, _)
onTxAcceptedEach(ch, n) ==
  IF n = 0 THEN ch ELSE onTxAcceptedEach(onTxAccepted(ch), n - 1)

\* A new scheduleBlockBuild goroutine.  cur: it belongs to the current pending
\* window.
NewTask(isCur) == [pc |-> "start", cur |-> isCur, due |-> ZeroTime]

\* A new pending window opens: what is still running belongs to an older one.
Retire(ts) ==
  LET old(t) == [t EXCEPT !.cur = FALSE]
      S == BagToSet(ts)
  IN [r \in {old(t) : t \in S} |->
        LET pre == {t \in S : old(t) = r}
            sum[Q \in SUBSET pre] ==
              IF Q = {} THEN 0
              ELSE LET q == CHOOSE x \in Q : TRUE IN ts[q] + sum[Q \ {q}]
        IN sum[pre]]

\* signalCanBuild without the alreadyPending early return: every call goes on
\* to start a goroutine.
signalCanBuild_cs_uncoalesced(c) ==
  /\ hasPendingTxs' = TRUE
  /\ sig' = [sig EXCEPT ![c] = "go"]
  /\ window' = IF hasPendingTxs THEN [window EXCEPT !.events = @ + 1]
                ELSE [tasks |-> 0, events |-> 0, by |-> c, notes |-> 0,
                      at |-> IF c = "build" THEN build.at ELSE ZeroTime,
                      parent |-> IF c = "build" THEN build.parent ELSE ZeroHash]
  /\ tasks' = IF hasPendingTxs THEN tasks ELSE Retire(tasks)

\* signalCanBuild, first half: test-and-set of hasPendingTxs under b.lock.
\* sig[c]: "go" when c is to start the goroutine of the current window,
\* "old" when the window it is to start the goroutine for is already over.
signalCanBuild_cs(c) ==
  LET alreadyPending == hasPendingTxs
  IN /\ hasPendingTxs' = TRUE
     /\ IF alreadyPending
        THEN /\ window' = [window EXCEPT !.events = @ + 1]
             /\ UNCHANGED <<sig, tasks>>
        ELSE /\ window' = [tasks |-> 0, events |-> 0, by |-> c, notes |-> 0,
                            at |-> IF c = "build" THEN build.at ELSE ZeroTime,
                            parent |-> IF c = "build" THEN build.parent ELSE ZeroHash]
             /\ sig' = [x \in Callers |->
                          IF x = c THEN "go" ELSE IF sig[x] = "go" THEN "old" ELSE sig[x]]
             /\ tasks' = Retire(tasks)

\* signalCanBuild, second half: Broadcast and `go b.scheduleBlockBuild()`.
signalCanBuild_go(c) ==
  /\ sig[c] # "no"
  /\ waiters' = Broadcast(waiters)
  /\ tasks' = tasks (+) SetToBag({NewTask(sig[c] = "go")})
  /\ sig' = [sig EXCEPT ![c] = "no"]
  /\ window' = [window EXCEPT !.tasks = IF sig[c] = "go" THEN @ + 1 ELSE @]
  /\ UNCHANGED <<gossipVars, now, shutdown, engineVars, flagVars, txSubmitChan,
                 toEngine, listener, build, vmVars, txOrphans,
                 concVars, dropped, builds, calls>>

\* awaitTxSubmissions: receive from txSubmitChan and call signalCanBuild.
awaitTxSubmissions_recv ==
  /\ listener = "run"
  /\ sig["listener"] = "no"
  /\ txSubmitChan > 0
  /\ txSubmitChan' = txSubmitChan - 1
  /\ signalCanBuild_cs("listener")
  /\ UNCHANGED <<gossipVars, now, shutdown, engineVars, lastBuildTime,
                 lastBuildParentHash, toEngine, listener, build,
                 waiters, vmVars, txOrphans, concVars, dropped, builds, calls>>

\* awaitTxSubmissions: the shutdown case of the select.
awaitTxSubmissions_exit ==
  /\ listener = "run"
  /\ sig["listener"] = "no"
  /\ shutdown
  /\ listener' = "exited"
  /\ UNCHANGED <<gossipVars, now, shutdown, engineVars, flagVars, txSubmitChan,
                 toEngine, tasks, sig, build, waiters, vmVars, txOrphans,
                 concVars, histVars,
                 builds, calls>>

\* Replace / remove one goroutine of the bag.
TaskStep(t, t2) == tasks' = (tasks (-) SetToBag({t})) (+) SetToBag({t2})

TaskExit(t) == tasks' = tasks (-) SetToBag({t})

\* scheduleBlockBuild leaving hasPendingTxs set when getCurrentBlock fails.
scheduleBlockBuild_start_keepsFlag(t, ok) ==
  /\ t.pc = "start"
  /\ IF ~ok
     THEN TaskExit(t)
     ELSE LET delay == calculateBuildingDelay(best)
          IN TaskStep(t, [t EXCEPT !.pc = IF delay > 0 THEN "timer" ELSE "check",
                                   !.due = now + delay])
  /\ UNCHANGED <<gossipVars, now, shutdown, engineVars, flagVars, txSubmitChan,
                 toEngine, listener, sig, build, waiters, vmVars, txOrphans,
                 concVars, histVars,
                 builds, calls>>

\* scheduleBlockBuild up to the timer: getCurrentBlock (ok = it succeeded)
\* and calculateBuildingDelay.
scheduleBlockBuild_start(t, ok) ==
  /\ t.pc = "start"
  /\ IF ~ok
     THEN /\ hasPendingTxs' = FALSE
          /\ TaskExit(t)
     ELSE /\ LET delay == calculateBuildingDelay(best)
             IN TaskStep(t, [t EXCEPT !.pc = IF delay > 0 THEN "timer" ELSE "check",
                                      !.due = now + delay])
          /\ UNCHANGED hasPendingTxs
  /\ UNCHANGED <<gossipVars, now, shutdown, engineVars, lastBuildTime,
                 lastBuildParentHash, txSubmitChan, toEngine, listener, sig,
                 build, waiters, vmVars, txOrphans, concVars, histVars, builds, calls>>

\* scheduleBlockBuild: case <-timer.C
scheduleBlockBuild_timer(t) ==
  /\ t.pc = "timer"
  /\ now >= t.due
  /\ TaskStep(t, [t EXCEPT !.pc = "check"])
  /\ UNCHANGED <<gossipVars, now, shutdown, engineVars, flagVars, txSubmitChan,
                 toEngine, listener, sig, build, waiters, vmVars, txOrphans,
                 concVars, histVars,
                 builds, calls>>

\* scheduleBlockBuild: case <-b.shutdownChan
scheduleBlockBuild_shutdown(t) ==
  /\ t.pc = "timer"
  /\ shutdown
  /\ TaskExit(t)
  /\ UNCHANGED <<gossipVars, now, shutdown, engineVars, flagVars, txSubmitChan,
                 toEngine, listener, sig, build, waiters, vmVars, txOrphans,
                 concVars, histVars,
                 builds, calls>>

\* scheduleBlockBuild notifying the engine without the needToBuild re-check.
scheduleBlockBuild_notify_noRecheck(t) ==
  /\ t.pc = "check"
  /\ TaskExit(t)
  /\ IF toEngine < ToEngineCap
     THEN /\ toEngine' = toEngine + 1
          /\ window' = [window EXCEPT !.notes = IF t.cur THEN @ + 1 ELSE @]
          /\ dropped' = FALSE
     ELSE /\ dropped' = TRUE
          /\ UNCHANGED <<toEngine, window>>
  /\ UNCHANGED <<gossipVars, now, shutdown, engineVars, flagVars, txSubmitChan,
                 listener, sig, build, waiters, vmVars, txOrphans,
                 concVars, builds, calls>>

\* scheduleBlockBuild: the needToBuild re-check and the non-blocking send.
scheduleBlockBuild_notify(t) ==
  /\ t.pc = "check"
  /\ IF ~needToBuild
     THEN /\ TaskStep(t, [t EXCEPT !.pc = "clear"])
          /\ UNCHANGED <<toEngine, window, dropped>>
     ELSE /\ TaskExit(t)
          /\ IF toEngine < ToEngineCap
             THEN /\ toEngine' = toEngine + 1
                  /\ window' = [window EXCEPT !.notes = IF t.cur THEN @ + 1 ELSE @]
                  /\ dropped' = FALSE
             ELSE /\ dropped' = TRUE
                  /\ UNCHANGED <<toEngine, window>>
  /\ UNCHANGED <<gossipVars, now, shutdown, engineVars, flagVars, txSubmitChan,
                 listener, sig, build, waiters, vmVars, txOrphans,
                 concVars, builds, calls>>

\* scheduleBlockBuild: hasPendingTxs = false after needToBuild returned false.
scheduleBlockBuild_clear(t) ==
  /\ t.pc = "clear"
  /\ hasPendingTxs' = FALSE
  /\ TaskExit(t)
  /\ UNCHANGED <<gossipVars, now, shutdown, engineVars, lastBuildTime,
                 lastBuildParentHash, txSubmitChan, toEngine, listener, sig,
                 build, waiters, vmVars, txOrphans, concVars, histVars, builds, calls>>

scheduleBlockBuild ==
  \E t \in BagToSet(tasks) :
    \/ \E ok \in BOOLEAN : scheduleBlockBuild_start(t, ok)
    \/ scheduleBlockBuild_timer(t)
    \/ scheduleBlockBuild_shutdown(t)
    \/ scheduleBlockBuild_notify(t)
    \/ scheduleBlockBuild_clear(t)

\* ------------------------------------------------------------------------
\* VM.BuildBlock and handleBuildAttempt
\* ------------------------------------------------------------------------

\* BuildBlock recording the last accepted block in place of the parent it
\* builds on.
BuildBlock_start_recordsAccepted(ok) ==
  /\ build.pc = "idle"
  /\ builds < MaxBuilds
  /\ ~shutdown
  /\ builds' = builds + 1
  /\ IF ~ok
     THEN /\ build' = [build EXCEPT !.res = "error", !.err = "current block",
                                     !.blk = ZeroHash, !.tmpl = ZeroHash]
          /\ UNCHANGED <<lastBuildTime, lastBuildParentHash>>
     ELSE /\ lastBuildTime' = now
          /\ lastBuildParentHash' = idToHash(lastAccepted)
          /\ build' = [pc |-> "clear", at |-> now, parent |-> best, res |-> "none",
                       err |-> "nil", blk |-> ZeroHash, tmpl |-> ZeroHash]
  /\ UNCHANGED <<gossipVars, now, shutdown, engineVars, hasPendingTxs, txSubmitChan,
                 toEngine, tasks, listener, sig, waiters, vmVars, txOrphans,
                 concVars, histVars,
                 calls>>

\* BuildBlock going on to the re-trigger without having recorded the attempt.
BuildBlock_start_unrecorded(ok) ==
  /\ build.pc = "idle"
  /\ builds < MaxBuilds
  /\ ~shutdown
  /\ builds' = builds + 1
  /\ build' = IF ~ok
              THEN [build EXCEPT !.res = "error", !.err = "current block",
                                 !.blk = ZeroHash, !.tmpl = ZeroHash]
              ELSE [pc |-> "clear", at |-> now, parent |-> best, res |-> "none",
                    err |-> "nil", blk |-> ZeroHash, tmpl |-> ZeroHash]
  /\ UNCHANGED <<gossipVars, now, shutdown, engineVars, flagVars, txSubmitChan,
                 toEngine, tasks, listener, sig, waiters, vmVars, txOrphans,
                 concVars, histVars,
                 calls>>

\* BuildBlock: getCurrentBlock (ok = it succeeded), then handleBuildAttempt
\* records the attempt under buildBlockLock.
BuildBlock_start(ok) ==
  /\ build.pc = "idle"
  /\ builds < MaxBuilds
  /\ ~shutdown
  /\ builds' = builds + 1
  /\ IF ~ok
     THEN /\ build' = [build EXCEPT !.res = "error", !.err = "current block",
                                     !.blk = ZeroHash, !.tmpl = ZeroHash]
          /\ UNCHANGED <<lastBuildTime, lastBuildParentHash>>
     ELSE /\ lastBuildTime' = now
          /\ lastBuildParentHash' = best
          /\ build' = [pc |-> "clear", at |-> now, parent |-> best, res |-> "none",
                       err |-> "nil", blk |-> ZeroHash, tmpl |-> ZeroHash]
  /\ UNCHANGED <<gossipVars, now, shutdown, engineVars, hasPendingTxs, txSubmitChan,
                 toEngine, tasks, listener, sig, waiters, vmVars, txOrphans,
                 concVars, histVars,
                 calls>>

\* handleBuildAttempt: hasPendingTxs = false under b.lock.
handleBuildAttempt_clear ==
  /\ build.pc = "clear"
  /\ hasPendingTxs' = FALSE
  /\ build' = [build EXCEPT !.pc = "need"]
  /\ UNCHANGED <<gossipVars, now, shutdown, engineVars, lastBuildTime,
                 lastBuildParentHash, txSubmitChan, toEngine, tasks, listener,
                 sig, waiters, vmVars, txOrphans, concVars, histVars, builds, calls>>

\* handleBuildAttempt: if b.needToBuild()
handleBuildAttempt_need ==
  /\ build.pc = "need"
  /\ build' = [build EXCEPT !.pc = IF needToBuild THEN "signal" ELSE "build"]
  /\ UNCHANGED <<gossipVars, now, shutdown, engineVars, flagVars, txSubmitChan,
                 toEngine, tasks, listener, sig, waiters, vmVars, txOrphans,
                 concVars, histVars,
                 builds, calls>>

\* handleBuildAttempt: b.signalCanBuild()
handleBuildAttempt_signal ==
  /\ build.pc = "signal"
  /\ signalCanBuild_cs("build")
  /\ build' = [build EXCEPT !.pc = "build"]
  /\ UNCHANGED <<gossipVars, now, shutdown, engineVars, lastBuildTime,
                 lastBuildParentHash, txSubmitChan, toEngine, listener,
                 waiters, vmVars, txOrphans, concVars, dropped, builds, calls>>

\* The blocks NewBlockTemplate makes when the chain does not move under it:
\* new valid blocks on the best block that take their transactions from
\* the pool.
Templates ==
  {b \in Blocks \ (InvalidBlocks \cup blockIndex \cup orphans) :
     ParentOf(b) = best /\ BlockTxs(b) \subseteq mempool}

\* The mining addresses btcutil.DecodeAddress accepts.
ValidAddrs == {"addr"}

\* BuildBlock returning the generated block although the engine made it an
\* orphan.
BuildBlockOutcome_returnsOrphan(e, addrs, b) ==
  IF Len(addrs) = 0 THEN [engine |-> e, err |-> "no mining address", blk |-> ZeroHash]
  ELSE IF addrs[1] \notin ValidAddrs
  THEN [engine |-> e, err |-> "decode address", blk |-> ZeroHash]
  ELSE IF b = 0 THEN [engine |-> e, err |-> "template", blk |-> ZeroHash]
  ELSE IF BlockOutcome(e.blockIndex, e.orphans, e.best, b) = "error"
  THEN [engine |-> e, err |-> "process", blk |-> ZeroHash]
  ELSE [engine |-> ProcessBlock(e, b), err |-> "nil", blk |-> b]

\* BuildBlock after handleBuildAttempt, on engine state e with mining
\* addresses addrs: the engine state it leaves, the error and the block it
\* returns.  b: the block of the template (0: the generator is missing or
\* NewBlockTemplate fails).  NewBlockAdapter fails only when the block
\* cannot be serialized; that return is left out.
BuildBlockOutcome(e, addrs, b) ==
  IF Len(addrs) = 0 THEN [engine |-> e, err |-> "no mining address", blk |-> ZeroHash]
  ELSE IF addrs[1] \notin ValidAddrs
  THEN [engine |-> e, err |-> "decode address", blk |-> ZeroHash]
  ELSE IF b = 0 THEN [engine |-> e, err |-> "template", blk |-> ZeroHash]
  ELSE IF BlockOutcome(e.blockIndex, e.orphans, e.best, b) = "error"
  THEN [engine |-> e, err |-> "process", blk |-> ZeroHash]
  ELSE IF BlockOutcome(e.blockIndex, e.orphans, e.best, b) = "orphan"
  THEN [engine |-> ProcessBlock(e, b), err |-> "orphan", blk |-> ZeroHash]
  ELSE [engine |-> ProcessBlock(e, b), err |-> "nil", blk |-> b]

\* BuildBlock after handleBuildAttempt: template generation and
\* ProcessBlockNoPoW.  build.tmpl keeps the block of the template.
BuildBlock_finish(b) ==
  LET r == BuildBlockOutcome(EngineState, miningAddrs, b)
  IN /\ build.pc = "build"
     /\ sig["build"] = "no"
     /\ mempool' = r.engine.mempool
     /\ confirmed' = r.engine.confirmed
     /\ blockIndex' = r.engine.blockIndex
     /\ orphans' = r.engine.orphans
     /\ best' = r.engine.best
     /\ txOrphans' = r.engine.txOrphans
     /\ build' = IF r.err = "nil"
                 THEN [build EXCEPT !.pc = "clearsig", !.res = "block",
                                    !.blk = r.blk, !.tmpl = b]
                 ELSE [build EXCEPT !.pc = "idle", !.res = "error",
                                    !.err = r.err,
                                    !.tmpl = IF r.err \in {"process", "orphan"}
                                             THEN b ELSE ZeroHash]
     /\ UNCHANGED <<gossipVars, now, shutdown, flagVars, txSubmitChan, toEngine,
                    tasks, listener, sig, waiters, vmVars, concVars, histVars, builds,
                    calls>>

\* clearPendingSignal, called by BuildBlock after a successful build.
clearPendingSignal ==
  /\ build.pc = "clearsig"
  /\ hasPendingTxs' = FALSE
  /\ build' = [build EXCEPT !.pc = "idle"]
  /\ UNCHANGED <<gossipVars, now, shutdown, engineVars, lastBuildTime,
                 lastBuildParentHash, txSubmitChan, toEngine, tasks, listener,
                 sig, waiters, vmVars, txOrphans, concVars, histVars, builds, calls>>

BuildBlock ==
  \/ \E ok \in BOOLEAN : BuildBlock_start(ok)
  \/ handleBuildAttempt_clear
  \/ handleBuildAttempt_need
  \/ handleBuildAttempt_signal
  \/ /\ build.pc = "build"
     /\ \E b \in Templates \cup {0} : BuildBlock_finish(b)
  \/ clearPendingSignal

\* ------------------------------------------------------------------------
\* waitForEvent / waitForNeedToBuild
\* ------------------------------------------------------------------------

Return(w, r) == [waiters[w] EXCEPT !.pc = "idle", !.res = r, !.bridge = "none"]

\* WaitForEvent is called with a fresh context.
waitForEvent_call(w) ==
  /\ waiters[w].pc = "idle"
  /\ calls < MaxCalls
  /\ calls' = calls + 1
  /\ waiters' = [waiters EXCEPT ![w] =
       [cancelled |-> FALSE, bridge |-> "none", pc |-> "loop", due |-> ZeroTime,
        res |-> "none", blocked |-> FALSE, cleared |-> FALSE]]
  /\ UNCHANGED <<gossipVars, now, shutdown, engineVars, flagVars, txSubmitChan,
                 toEngine, tasks, listener, sig, build, vmVars, txOrphans,
                 concVars, histVars, builds>>

\* waitForNeedToBuild with b.lock held: the loop condition, then either the
\* exit of the loop (hasPendingTxs = false, return nil) or the start of the
\* bridging goroutine and the release of the lock.  cleared records that the
\* call found the flag set and cleared it.
waitForNeedToBuild_loop(w) ==
  /\ waiters[w].pc = "loop"
  /\ IF ~hasPendingTxs /\ ~needToBuild
     THEN /\ waiters' = [waiters EXCEPT ![w].pc = "select", ![w].bridge = "spawned"]
          /\ UNCHANGED hasPendingTxs
     ELSE /\ hasPendingTxs' = FALSE
          /\ waiters' = [waiters EXCEPT ![w].pc = "calc", ![w].bridge = "none",
                                        ![w].cleared = hasPendingTxs]
  /\ UNCHANGED <<gossipVars, now, shutdown, engineVars, lastBuildTime,
                 lastBuildParentHash, txSubmitChan, toEngine, tasks, listener,
                 sig, build, vmVars, txOrphans, concVars, histVars, builds, calls>>

\* The bridging goroutine: b.lock.Lock(); b.pendingSignal.Wait() parks it
\* and releases the lock.
bridge_wait(w) ==
  /\ waiters[w].bridge = "spawned"
  /\ waiters' = [waiters EXCEPT ![w].bridge = "waiting"]
  /\ UNCHANGED <<gossipVars, now, shutdown, engineVars, flagVars, txSubmitChan,
                 toEngine, tasks, listener, sig, build, vmVars, txOrphans,
                 concVars, histVars,
                 builds, calls>>

\* The bridging goroutine after a Broadcast: Wait returns with the lock,
\* close(signaled), unlock.
bridge_close(w) ==
  /\ waiters[w].bridge = "woken"
  /\ waiters' = [waiters EXCEPT ![w].bridge = "closed"]
  /\ UNCHANGED <<gossipVars, now, shutdown, engineVars, flagVars, txSubmitChan,
                 toEngine, tasks, listener, sig, build, vmVars, txOrphans,
                 concVars, histVars,
                 builds, calls>>

\* waitForNeedToBuild select: case <-signaled
waitForNeedToBuild_signaled(w) ==
  /\ waiters[w].pc = "select"
  /\ waiters[w].bridge = "closed"
  /\ waiters' = [waiters EXCEPT ![w].pc = "loop", ![w].bridge = "none"]
  /\ UNCHANGED <<gossipVars, now, shutdown, engineVars, flagVars, txSubmitChan,
                 toEngine, tasks, listener, sig, build, vmVars, txOrphans,
                 concVars, histVars,
                 builds, calls>>

\* A cancellation that also stops the scheduleBlockBuild goroutines.
waitForNeedToBuild_ctxDone_stopsTasks(w) ==
  /\ waiters[w].pc = "select"
  /\ waiters[w].cancelled
  /\ waiters' = [Broadcast(waiters) EXCEPT ![w].pc = "joinCtx"]
  /\ tasks' = EmptyBag
  /\ UNCHANGED <<gossipVars, now, shutdown, engineVars, flagVars, txSubmitChan,
                 toEngine, listener, sig, build, vmVars, txOrphans, concVars, histVars,
                 builds, calls>>

\* waitForNeedToBuild select: case <-ctx.Done() (Broadcast, then <-signaled)
waitForNeedToBuild_ctxDone(w) ==
  /\ waiters[w].pc = "select"
  /\ waiters[w].cancelled
  /\ waiters' = [Broadcast(waiters) EXCEPT ![w].pc = "joinCtx"]
  /\ UNCHANGED <<gossipVars, now, shutdown, engineVars, flagVars, txSubmitChan,
                 toEngine, tasks, listener, sig, build, vmVars, txOrphans,
                 concVars, histVars,
                 builds, calls>>

\* waitForNeedToBuild select: case <-b.shutdownChan (Broadcast, then <-signaled)
waitForNeedToBuild_shutdown(w) ==
  /\ waiters[w].pc = "select"
  /\ shutdown
  /\ waiters' = [Broadcast(waiters) EXCEPT ![w].pc = "joinShutdown"]
  /\ UNCHANGED <<gossipVars, now, shutdown, engineVars, flagVars, txSubmitChan,
                 toEngine, tasks, listener, sig, build, vmVars, txOrphans,
                 concVars, histVars,
                 builds, calls>>

\* waitForNeedToBuild returning from a cancellation branch right after the
\* Broadcast, without the receive from signaled.
waitForNeedToBuild_join_noWait(w) ==
  /\ waiters[w].pc \in {"joinCtx", "joinShutdown"}
  /\ waiters' = [waiters EXCEPT ![w] =
       Return(w, IF waiters[w].pc = "joinCtx" THEN "ctxErr" ELSE "Canceled")]
  /\ UNCHANGED <<gossipVars, now, shutdown, engineVars, flagVars, txSubmitChan,
                 toEngine, tasks, listener, sig, build, vmVars, txOrphans,
                 concVars, histVars,
                 builds, calls>>

\* waitForNeedToBuild after <-signaled in a cancellation branch: return
\* ctx.Err() / context.Canceled, which waitForEvent returns unchanged.
waitForNeedToBuild_join(w) ==
  /\ waiters[w].pc \in {"joinCtx", "joinShutdown"}
  /\ waiters[w].bridge = "closed"
  /\ waiters' = [waiters EXCEPT ![w] =
       Return(w, IF waiters[w].pc = "joinCtx" THEN "ctxErr" ELSE "Canceled")]
  /\ UNCHANGED <<gossipVars, now, shutdown, engineVars, flagVars, txSubmitChan,
                 toEngine, tasks, listener, sig, build, vmVars, txOrphans,
                 concVars, histVars,
                 builds, calls>>

\* waitForEvent steps 2 and 3: getCurrentBlock (ok = it succeeded),
\* calculateBuildingDelay, immediate return when no delay is needed.
waitForEvent_calc(w, ok) ==
  /\ waiters[w].pc = "calc"
  /\ LET delay == calculateBuildingDelay(best)
     IN waiters' = [waiters EXCEPT ![w] =
          IF ~ok THEN Return(w, "blockErr")
          ELSE IF delay <= 0 THEN Return(w, "PendingTxs")
          ELSE [waiters[w] EXCEPT !.pc = "timer", !.due = now + delay]]
  /\ UNCHANGED <<gossipVars, now, shutdown, engineVars, flagVars, txSubmitChan,
                 toEngine, tasks, listener, sig, build, vmVars, txOrphans,
                 concVars, histVars,
                 builds, calls>>

\* waitForEvent step 4, the select on ctx.Done(), timer.C and shutdownChan.
waitForEvent_select(w, case) ==
  /\ waiters[w].pc = "timer"
  /\ \/ case = "ctx" /\ waiters[w].cancelled
     \/ case = "timer" /\ now >= waiters[w].due
     \/ case = "shutdown" /\ shutdown
  /\ waiters' = [waiters EXCEPT ![w] =
       Return(w, IF case = "ctx" THEN "ctxErr"
                 ELSE IF case = "timer" THEN "PendingTxs" ELSE "Canceled")]
  /\ UNCHANGED <<gossipVars, now, shutdown, engineVars, flagVars, txSubmitChan,
                 toEngine, tasks, listener, sig, build, vmVars, txOrphans,
                 concVars, histVars,
                 builds, calls>>

\* The host engine cancels the context of a call in progress.
CancelCtx(w) ==
  /\ waiters[w].pc # "idle"
  /\ ~waiters[w].cancelled
  /\ waiters' = [waiters EXCEPT ![w].cancelled = TRUE,
                                ![w].blocked = @ \/ waiters[w].pc \in {"select", "timer"}]
  /\ UNCHANGED <<gossipVars, now, shutdown, engineVars, flagVars, txSubmitChan,
                 toEngine, tasks, listener, sig, build, vmVars, txOrphans,
                 concVars, histVars,
                 builds, calls>>

waitForEvent ==
  \E w \in Waiters :
    \/ waitForEvent_call(w)
    \/ waitForNeedToBuild_loop(w)
    \/ bridge_wait(w)
    \/ bridge_close(w)
    \/ waitForNeedToBuild_signaled(w)
    \/ waitForNeedToBuild_ctxDone(w)
    \/ waitForNeedToBuild_shutdown(w)
    \/ waitForNeedToBuild_join(w)
    \/ \E ok \in BOOLEAN : waitForEvent_calc(w, ok)
    \/ \E case \in {"ctx", "timer", "shutdown"} : waitForEvent_select(w, case)
    \/ CancelCtx(w)

\* ------------------------------------------------------------------------
\* The rest of the VM and its environment
\* ------------------------------------------------------------------------

\* initBlockBuilding: start the listener; signalCanBuild if the mempool
\* already holds transactions.
initBlockBuilding ==
  /\ listener = "off"
  /\ ~shutdown
  /\ listener' = "run"
  /\ IF needToBuild THEN signalCanBuild_cs("init")
     ELSE UNCHANGED <<hasPendingTxs, sig, tasks, window>>
  /\ UNCHANGED <<gossipVars, now, shutdown, engineVars, lastBuildTime,
                 lastBuildParentHash, txSubmitChan, toEngine, build,
                 waiters, vmVars, txOrphans, concVars, dropped, builds, calls>>

\* An Accept that signals the block builder after updating the pointers.
Accept_signalling(b) ==
  /\ b \in blockIndex
  /\ ParentOf(b) = lastAccepted
  /\ lastAccepted' = hashToID(b)
  /\ preferred' = hashToID(b)
  /\ vmcall' = [op |-> "Accept", acc |-> hashToID(b)]
  /\ UNCHANGED <<miningAddrs, txOrphans, concVars>>
  /\ sig["init"] = "no"
  /\ signalCanBuild_cs("init")
  /\ UNCHANGED <<gossipVars, now, shutdown, engineVars, lastBuildTime, lastBuildParentHash,
                 txSubmitChan, toEngine, listener, build, waiters, dropped,
                 builds, calls>>

\* BlockAdapter.Accept; the host engine accepts a child of the last
\* accepted block.
Accept(b) ==
  /\ b \in blockIndex
  /\ ParentOf(b) = lastAccepted
  /\ lastAccepted' = hashToID(b)
  /\ preferred' = hashToID(b)
  /\ vmcall' = [op |-> "Accept", acc |-> hashToID(b)]
  /\ UNCHANGED <<miningAddrs, txOrphans, concVars>>
  /\ UNCHANGED <<gossipVars, now, shutdown, engineVars, flagVars, txSubmitChan,
                 toEngine, tasks, listener, sig, build, waiters, histVars,
                 builds, calls>>

\* VM.Shutdown: close(vm.shutdownChan)
Shutdown ==
  /\ ~shutdown
  /\ shutdown' = TRUE
  /\ waiters' = [w \in Waiters |->
       [waiters[w] EXCEPT !.blocked = @ \/ waiters[w].pc \in {"select", "timer"}]]
  /\ UNCHANGED <<gossipVars, now, engineVars, flagVars, txSubmitChan, toEngine,
                 tasks, listener, sig, build, vmVars, txOrphans,
                 concVars, histVars, builds, calls>>

\* The engine accepts a transaction submitted to it and fires the
\* "on transaction accepted" callback.
TxSubmitted(t) ==
  /\ ~shutdown
  /\ TxAcceptable(mempool, confirmed, t)
  /\ mempool' = ProcessTransaction(EngineState, t).engine.mempool
  /\ txOrphans' = ProcessTransaction(EngineState, t).engine.txOrphans
  /\ txSubmitChan' = onTxAcceptedEach(txSubmitChan,
                         Cardinality(ProcessTransaction(EngineState, t).accepted))
  /\ last' = NoCall
  /\ UNCHANGED <<bloom, pushed, salt, added, wire, now, shutdown, confirmed,
                 blockIndex, orphans, best, flagVars, toEngine, tasks, listener,
                 sig, build, waiters, vmVars, concVars, histVars, builds, calls>>

\* The engine is handed, by a path that keeps orphans, a transaction whose
\* input it does not know, and holds it.
OrphanHeld(t) ==
  /\ ~shutdown
  /\ t \in Txs \ InvalidTxs
  /\ t \notin mempool \cup confirmed \cup txOrphans
  /\ DepOf(t) # 0
  /\ DepOf(t) \notin mempool \cup confirmed
  /\ txOrphans' = txOrphans \cup {t}
  /\ last' = NoCall
  /\ UNCHANGED <<bloom, pushed, salt, added, wire, now, shutdown, engineVars,
                 flagVars, txSubmitChan, toEngine, tasks, listener, sig, build,
                 waiters, vmVars, concVars, histVars, builds, calls>>

\* The host engine takes a message from the toEngine channel.
EngineRecv ==
  /\ toEngine > 0
  /\ toEngine' = toEngine - 1
  /\ UNCHANGED <<gossipVars, now, shutdown, engineVars, flagVars, txSubmitChan,
                 tasks, listener, sig, build, waiters, vmVars, txOrphans,
                 concVars, histVars,
                 builds, calls>>

\* The instants at which a running timer fires or calculateBuildingDelay
\* changes its answer.
Deadlines ==
  {t.due : t \in {u \in BagToSet(tasks) : u.pc = "timer"}}
    \cup {waiters[w].due : w \in {v \in Waiters : waiters[v].pc = "timer"}}
    \cup (IF lastBuildTime = ZeroTime THEN {}
          ELSE {TimeAdd(lastBuildTime, RetryDelay),
                TimeAdd(lastBuildTime, TargetBlockTime)})

\* Time passes, up to the next such instant.
Tick(x) ==
  /\ x > now
  /\ now' = x
  /\ UNCHANGED <<gossipVars, shutdown, engineVars, flagVars, txSubmitChan, toEngine, tasks,
                 listener, sig, build, waiters, vmVars, txOrphans,
                 concVars, histVars, builds, calls>>

\* ------------------------------------------------------------------------
\* UnifiedBTCSet: the gossip dedup set
\* ------------------------------------------------------------------------

\* The gossip items: a kind and the hash of the transaction or block carried.
TxItem(t) == [hash |-> t, type |-> GossipItemTypeTx]

BlockItem(b) == [hash |-> b, type |-> GossipItemTypeBlock]

Items == {TxItem(t) : t \in Txs} \cup {BlockItem(b) : b \in Blocks}

GossipID(item) == hashToID(item.hash)

\* Add without the "already known" tests: every item is submitted to the
\* engine.
AddOutcome_noKnownCheck(e, item, lookupOk) ==
  IF item.type = GossipItemTypeTx
  THEN IF TxAcceptable(e.mempool, e.confirmed, item.hash)
       THEN [engine |-> ProcessTransaction(e, item.hash).engine,
             accepted |-> ProcessTransaction(e, item.hash).accepted, err |-> "nil",
             mark |-> TRUE,
             submitted |-> TRUE]
       ELSE [engine |-> e, accepted |-> {}, err |-> "rejected", mark |-> FALSE,
             submitted |-> TRUE]
  ELSE IF ~lookupOk
       THEN [engine |-> e, accepted |-> {}, err |-> "lookup", mark |-> FALSE,
             submitted |-> FALSE]
       ELSE [engine |-> ProcessBlock(e, item.hash), accepted |-> {}, err |-> "nil",
             mark |-> TRUE, submitted |-> TRUE]

\* Add handing a transaction the pool already holds to the push gossiper
\* again.
AddOutcome_knownTxReannounced(e, item, lookupOk) ==
  IF item.type = GossipItemTypeTx
  THEN IF HaveTransaction(e.mempool, item.hash)
       THEN [engine |-> e, accepted |-> {item.hash}, err |-> "nil", mark |-> TRUE,
             submitted |-> FALSE]
       ELSE IF TxAcceptable(e.mempool, e.confirmed, item.hash)
       THEN [engine |-> ProcessTransaction(e, item.hash).engine,
             accepted |-> ProcessTransaction(e, item.hash).accepted, err |-> "nil",
             mark |-> TRUE,
             submitted |-> TRUE]
       ELSE [engine |-> e, accepted |-> {}, err |-> "rejected", mark |-> FALSE,
             submitted |-> TRUE]
  ELSE IF ~lookupOk
       THEN [engine |-> e, accepted |-> {}, err |-> "lookup", mark |-> FALSE,
             submitted |-> FALSE]
       ELSE IF HaveBlock(e.blockIndex, item.hash)
       THEN [engine |-> e, accepted |-> {}, err |-> "nil", mark |-> TRUE,
             submitted |-> FALSE]
       ELSE [engine |-> ProcessBlock(e, item.hash), accepted |-> {}, err |-> "nil",
             mark |-> TRUE, submitted |-> TRUE]

\* Iterate going on after the visitor returned false.
Iterate_ignoresStop(order, stop) == [i \in 1..Len(order) |-> TxItem(order[i])]

\* Add returning success for a transaction the pool already holds without
\* marking it known.
AddOutcome_knownTxUnmarked(e, item, lookupOk) ==
  IF item.type = GossipItemTypeTx
  THEN IF HaveTransaction(e.mempool, item.hash)
       THEN [engine |-> e, accepted |-> {}, err |-> "nil", mark |-> FALSE,
             submitted |-> FALSE]
       ELSE IF TxAcceptable(e.mempool, e.confirmed, item.hash)
       THEN [engine |-> ProcessTransaction(e, item.hash).engine,
             accepted |-> ProcessTransaction(e, item.hash).accepted, err |-> "nil",
             mark |-> TRUE,
             submitted |-> TRUE]
       ELSE [engine |-> e, accepted |-> {}, err |-> "rejected", mark |-> FALSE,
             submitted |-> TRUE]
  ELSE IF ~lookupOk
       THEN [engine |-> e, accepted |-> {}, err |-> "lookup", mark |-> FALSE,
             submitted |-> FALSE]
       ELSE IF HaveBlock(e.blockIndex, item.hash)
       THEN [engine |-> e, accepted |-> {}, err |-> "nil", mark |-> TRUE,
             submitted |-> FALSE]
       ELSE [engine |-> ProcessBlock(e, item.hash), accepted |-> {}, err |-> "nil",
             mark |-> TRUE, submitted |-> TRUE]

\* Add marking a transaction known although the engine rejected it.
AddOutcome_marksRejected(e, item, lookupOk) ==
  IF item.type = GossipItemTypeTx
  THEN IF HaveTransaction(e.mempool, item.hash)
       THEN [engine |-> e, accepted |-> {}, err |-> "nil", mark |-> TRUE,
             submitted |-> FALSE]
       ELSE IF TxAcceptable(e.mempool, e.confirmed, item.hash)
       THEN [engine |-> ProcessTransaction(e, item.hash).engine,
             accepted |-> ProcessTransaction(e, item.hash).accepted, err |-> "nil",
             mark |-> TRUE,
             submitted |-> TRUE]
       ELSE [engine |-> e, accepted |-> {}, err |-> "rejected", mark |-> TRUE,
             submitted |-> TRUE]
  ELSE IF ~lookupOk
       THEN [engine |-> e, accepted |-> {}, err |-> "lookup", mark |-> FALSE,
             submitted |-> FALSE]
       ELSE IF HaveBlock(e.blockIndex, item.hash)
       THEN [engine |-> e, accepted |-> {}, err |-> "nil", mark |-> TRUE,
             submitted |-> FALSE]
       ELSE [engine |-> ProcessBlock(e, item.hash), accepted |-> {}, err |-> "nil",
             mark |-> TRUE, submitted |-> TRUE]

\* Add returning the engine's error for a block whose processing failed,
\* without marking it known.
AddOutcome_returnsBlockError(e, item, lookupOk) ==
  IF item.type = GossipItemTypeTx
  THEN IF HaveTransaction(e.mempool, item.hash)
       THEN [engine |-> e, accepted |-> {}, err |-> "nil", mark |-> TRUE,
             submitted |-> FALSE]
       ELSE IF TxAcceptable(e.mempool, e.confirmed, item.hash)
       THEN [engine |-> ProcessTransaction(e, item.hash).engine,
             accepted |-> ProcessTransaction(e, item.hash).accepted, err |-> "nil",
             mark |-> TRUE,
             submitted |-> TRUE]
       ELSE [engine |-> e, accepted |-> {}, err |-> "rejected", mark |-> FALSE,
             submitted |-> TRUE]
  ELSE IF ~lookupOk
       THEN [engine |-> e, accepted |-> {}, err |-> "lookup", mark |-> FALSE,
             submitted |-> FALSE]
       ELSE IF HaveBlock(e.blockIndex, item.hash)
       THEN [engine |-> e, accepted |-> {}, err |-> "nil", mark |-> TRUE,
             submitted |-> FALSE]
       ELSE IF BlockOutcome(e.blockIndex, e.orphans, e.best, item.hash) = "error"
       THEN [engine |-> e, accepted |-> {}, err |-> "rejected", mark |-> FALSE,
             submitted |-> TRUE]
       ELSE [engine |-> ProcessBlock(e, item.hash), accepted |-> {}, err |-> "nil",
             mark |-> TRUE, submitted |-> TRUE]

\* UnifiedBTCSet.Add on engine state e: the engine state it leaves, the error
\* it returns, whether it marks the item known, the transactions the engine
\* reports as accepted, whether the item was submitted to the engine.
\* lookupOk: HaveBlock returned no error.
AddOutcome(e, item, lookupOk) ==
  IF item.type = GossipItemTypeTx
  THEN IF HaveTransaction(e.mempool, item.hash)
       THEN [engine |-> e, accepted |-> {}, err |-> "nil", mark |-> TRUE,
             submitted |-> FALSE]
       ELSE IF TxAcceptable(e.mempool, e.confirmed, item.hash)
       THEN [engine |-> ProcessTransaction(e, item.hash).engine,
             accepted |-> ProcessTransaction(e, item.hash).accepted, err |-> "nil",
             mark |-> TRUE,
             submitted |-> TRUE]
       ELSE [engine |-> e, accepted |-> {}, err |-> "rejected", mark |-> FALSE,
             submitted |-> TRUE]
  ELSE IF ~lookupOk
       THEN [engine |-> e, accepted |-> {}, err |-> "lookup", mark |-> FALSE,
             submitted |-> FALSE]
       ELSE IF HaveBlock(e.blockIndex, item.hash)
       THEN [engine |-> e, accepted |-> {}, err |-> "nil", mark |-> TRUE,
             submitted |-> FALSE]
       ELSE [engine |-> ProcessBlock(e, item.hash), accepted |-> {}, err |-> "nil",
             mark |-> TRUE, submitted |-> TRUE]

\* OnTxRelay handing only the submitted transaction to the push gossiper.
OnTxRelay_itemOnly(queue, txns) ==
  IF txns = {} THEN queue
  ELSE queue \cup {hashToID(CHOOSE t \in txns : \A u \in txns : DepOf(t) # u)}

\* The OnTxRelay callback: every transaction of the list is handed to the
\* push gossiper, which exists whenever the set can be called.
OnTxRelay(queue, txns) == queue \cup {hashToID(t) : t \in txns}

\* UnifiedBTCSet.Add.  The engine fires the "on transaction accepted" callback
\* for an accepted transaction; OnTxRelay hands the accepted transactions to
\* the push gossiper.  last.n counts the calls made in a row with this item,
\* last.engine is the engine state the first of them left, last.ok tells
\* that no lookup failed in them; last.pre and last.filter are the engine
\* state and the filter the call found, last.lookup its lookupOk,
\* last.submitted tells that the call handed the item to the engine.
Add(item, lookupOk) ==
  LET r == AddOutcome(EngineState, item, lookupOk)
      again == last.op = "Add" /\ last.item = item
  IN /\ ~shutdown
     /\ lock = "free"
     /\ item.type = GossipItemTypeTx => lookupOk
     /\ mempool' = r.engine.mempool
     /\ confirmed' = r.engine.confirmed
     /\ blockIndex' = r.engine.blockIndex
     /\ orphans' = r.engine.orphans
     /\ best' = r.engine.best
     /\ txOrphans' = r.engine.txOrphans
     /\ txSubmitChan' = onTxAcceptedEach(txSubmitChan, Cardinality(r.accepted))
     /\ bloom' = IF r.mark THEN bloom \cup {GossipID(item)} ELSE bloom
     /\ pushed' = OnTxRelay(pushed, r.accepted)
     /\ last' = [op |-> "Add",
                 engine |-> IF again THEN last.engine ELSE r.engine,
                 n |-> IF again THEN 2 ELSE 1,
                 pre |-> EngineState,
                 ok |-> IF again THEN last.ok /\ lookupOk ELSE lookupOk,
                 err |-> r.err,
                 item |-> item, submitted |-> r.submitted,
                 filter |-> bloom, lookup |-> lookupOk]
     /\ added' = IF r.err = "nil" THEN added \cup {GossipID(item)} ELSE added
     /\ UNCHANGED <<salt, wire, now, shutdown, flagVars, toEngine, tasks, listener, sig,
                    build, waiters, vmVars, concVars, histVars, builds, calls>>

\* A nil *BTCGossip, and a nil payload in an item.
NilItem == [hash |-> ZeroHash, type |-> 0]

\* No Add call is in progress.
NotAdding ==
  [pc |-> "idle", err |-> "nil", item |-> NilItem, lookupOk |-> TRUE,
   mark |-> FALSE]

\* The blocks on the branch that ends in block b.
RECURSIVE BestChain(_)
BestChain(b) == IF b = Genesis THEN {Genesis} ELSE {b} \cup BestChain(ParentOf(b))

\* The blocks for which the engine fires its block-connected callback when
\* it goes from state e to state e2: those that joined the best chain.
Connected(e, e2) == BestChain(e2.best) \ BestChain(e.best)

\* OnBlockRelay: one goroutine is started for each connected block.
OnBlockRelay(rs, bs) == rs (+) SetToBag({[hash |-> b] : b \in bs})

\* UnifiedBTCSet.Add step by step: s.lock.Lock()
Add_lock(item, lookupOk) ==
  /\ ~shutdown
  /\ adding.pc = "idle"
  /\ lock = "free"
  /\ item.type = GossipItemTypeTx => lookupOk
  /\ lock' = "Add"
  /\ adding' = [NotAdding EXCEPT !.pc = "locked", !.item = item,
                                 !.lookupOk = lookupOk]
  /\ UNCHANGED <<now, shutdown, engineVars, flagVars, txSubmitChan, toEngine,
                 tasks, listener, sig, build, waiters, vmVars, txOrphans,
                 lockVars, relays, lifeVars, histVars, builds, calls,
                 gossipVars>>

\* Add up to its bloom.Add: the lookup and the submission to the engine,
\* during which the engine fires its callbacks.
Add_process ==
  LET r == AddOutcome(EngineState, adding.item, adding.lookupOk)
  IN /\ adding.pc = "locked"
     /\ mempool' = r.engine.mempool
     /\ confirmed' = r.engine.confirmed
     /\ blockIndex' = r.engine.blockIndex
     /\ orphans' = r.engine.orphans
     /\ best' = r.engine.best
     /\ txOrphans' = r.engine.txOrphans
     /\ txSubmitChan' = onTxAcceptedEach(txSubmitChan, Cardinality(r.accepted))
     /\ pushed' = OnTxRelay(pushed, r.accepted)
     /\ relays' = OnBlockRelay(relays, Connected(EngineState, r.engine))
     /\ adding' = [adding EXCEPT !.pc = "processed", !.mark = r.mark,
                                 !.err = r.err]
     /\ UNCHANGED <<now, shutdown, flagVars, toEngine, tasks, listener, sig,
                    build, waiters, vmVars, lockVars, lock, lifeVars, histVars,
                    builds, calls, bloom, last, salt, added, wire>>

\* s.bloom.Add(item) where the call reaches it, the return and the deferred
\* s.lock.Unlock()
Add_return ==
  /\ adding.pc = "processed"
  /\ bloom' = IF adding.mark THEN bloom \cup {GossipID(adding.item)} ELSE bloom
  /\ added' = IF adding.err = "nil" THEN added \cup {GossipID(adding.item)}
              ELSE added
  /\ last' = [op |-> "Add", err |-> adding.err, item |-> adding.item]
  /\ lock' = "free"
  /\ adding' = NotAdding
  /\ UNCHANGED <<now, shutdown, engineVars, flagVars, txSubmitChan, toEngine,
                 tasks, listener, sig, build, waiters, vmVars, txOrphans,
                 lockVars, relays, lifeVars, histVars, builds, calls, pushed,
                 salt, wire>>

\* What vm.btcSet.bloom.Has(item) can answer for id: the filter is read
\* without s.lock, so while Add is at its bloom.Add of the same item the
\* read may or may not see the write.
BloomHas(id) ==
  IF adding.pc = "processed" /\ adding.mark /\ GossipID(adding.item) = id
  THEN {id \in bloom, TRUE}
  ELSE {id \in bloom}

\* A goroutine started by OnBlockRelay: it skips a block it finds in the
\* filter and hands any other to the push gossiper.
OnBlockRelay_go(g) ==
  /\ g \in BagToSet(relays)
  /\ relays' = relays (-) SetToBag({g})
  /\ \E has \in BloomHas(hashToID(g.hash)) :
       pushed' = IF has THEN pushed ELSE pushed \cup {hashToID(g.hash)}
  /\ UNCHANGED <<now, shutdown, engineVars, flagVars, txSubmitChan, toEngine,
                 tasks, listener, sig, build, waiters, vmVars, txOrphans,
                 lockVars, lock, adding, lifeVars, histVars, builds, calls,
                 bloom, last, salt, added, wire>>

\* Has answering from the filter.
Has_fromFilter(id, lookupOk) == id \in bloom

\* UnifiedBTCSet.Has.  lookupOk: HaveBlock returned no error.
Has(id, lookupOk) ==
  LET hash == idToHash(id)
  IN IF HaveTransaction(mempool, hash) THEN TRUE
     ELSE IF ~lookupOk THEN FALSE
     ELSE HaveBlock(blockIndex, hash)

\* A call of Has by the pull gossip handler.
HasCall(id, lookupOk) ==
  /\ ~shutdown
  /\ lock = "free"
  /\ last' = [op |-> "Has", id |-> id, ok |-> lookupOk, res |-> Has(id, lookupOk)]
  /\ UNCHANGED <<now, shutdown, engineVars, flagVars, txSubmitChan, toEngine,
                 tasks, listener, sig, build, waiters, vmVars, txOrphans,
                 concVars, histVars,
                 builds, calls, bloom, pushed, salt, added, wire>>

\* TxMemPool().TxDescs(): the descriptors of the pool's transactions.
TxDescs(pool) == pool

\* The orders in which a range loop can present the elements of S.
Orderings(S) ==
  {f \in [1..Cardinality(S) -> S] : \A i, j \in 1..Cardinality(S) : f[i] = f[j] => i = j}

\* Iterate presenting the best block after the transactions.
Iterate_withBlocks(order, stop) ==
  IF stop \in 1..Len(order)
  THEN [i \in 1..stop |-> TxItem(order[i])]
  ELSE [i \in 1..Len(order) |-> TxItem(order[i])] \o <<BlockItem(best)>>

\* UnifiedBTCSet.Iterate: the items presented to the visitor f, in turn.
\* order: the pool's descriptors as the loop ranges over them; stop: the
\* position of the item on which f returns false (0: f never does).
Iterate(order, stop) ==
  [i \in 1..(IF stop \in 1..Len(order) THEN stop ELSE Len(order))
     |-> TxItem(order[i])]

IterateCall(order, stop) ==
  /\ ~shutdown
  /\ lock = "free"
  /\ last' = [op |-> "Iterate", stop |-> stop, visited |-> Iterate(order, stop)]
  /\ UNCHANGED <<now, shutdown, engineVars, flagVars, txSubmitChan, toEngine,
                 tasks, listener, sig, build, waiters, vmVars, txOrphans,
                 concVars, histVars,
                 builds, calls, bloom, pushed, salt, added, wire>>

\* UnifiedBTCSet.GetFilter: bloom.Marshal() returns the filter and its salt.
GetFilter == [salt |-> salt, filter |-> bloom]

GetFilterCall ==
  /\ ~shutdown
  /\ lock = "free"
  /\ last' = [salt |-> GetFilter.salt, op |-> "GetFilter",
              filter |-> GetFilter.filter]
  /\ UNCHANGED <<now, shutdown, engineVars, flagVars, txSubmitChan, toEngine,
                 tasks, listener, sig, build, waiters, vmVars, txOrphans,
                 concVars, histVars,
                 builds, calls, bloom, pushed, salt, added, wire>>

\* ------------------------------------------------------------------------
\* The gossip codec.  A byte is a number below WireBase.  The engine's wire
\* encoding writes a transaction as TxWidth bytes, the digits of its content,
\* and a block as its header (HeaderWidth bytes), the number of its
\* transactions and the transactions in turn; the hash of a transaction is
\* taken from its content, the hash of a block from its header alone.
\* ------------------------------------------------------------------------

\* v as w digits, most significant first.
RECURSIVE Digits(_, _)
Digits(v, w) ==
  IF w = 0 THEN <<>> ELSE Digits(v \div WireBase, w - 1) \o <<v % WireBase>>

\* The number a digit string stands for.
RECURSIVE Value(_)
Value(d) ==
  IF d = <<>> THEN 0 ELSE Value(SubSeq(d, 1, Len(d) - 1)) * WireBase + d[Len(d)]

\* MsgTx.BtcEncode
TxEncode(t) == Digits(t, TxWidth)

\* The transactions of a set, encoded in the order of the block.
RECURSIVE TxsEncode(_)
TxsEncode(S) ==
  IF S = {} THEN <<>>
  ELSE LET t == CHOOSE x \in S : \A y \in S : x <= y
       IN TxEncode(t) \o TxsEncode(S \ {t})

\* MsgBlock.BtcEncode
BlockEncode(b) ==
  Digits(b - Genesis, HeaderWidth) \o <<Cardinality(BlockTxs(b))>>
    \o TxsEncode(BlockTxs(b))

\* MsgTx.BtcDecode: reads TxWidth bytes; what follows is left unread.
TxDecode(buf) ==
  IF Len(buf) < TxWidth THEN [hash |-> ZeroHash, err |-> "decode"]
  ELSE [hash |-> Value(SubSeq(buf, 1, TxWidth)), err |-> "nil"]

\* MsgBlock.BtcDecode: reads the header, the count and that many
\* transactions; what follows is left unread.
BlockDecode(buf) ==
  IF Len(buf) < HeaderWidth + 1 THEN [hash |-> ZeroHash, err |-> "decode"]
  ELSE IF Len(buf) < HeaderWidth + 1 + buf[HeaderWidth + 1] * TxWidth
  THEN [hash |-> ZeroHash, err |-> "decode"]
  ELSE [hash |-> Genesis + Value(SubSeq(buf, 1, HeaderWidth)), err |-> "nil"]

\* MarshalGossip writing the transaction discriminator for every item.
MarshalGossip_txDiscriminator(item) ==
  IF item.type = GossipItemTypeTx
  THEN IF item.hash = ZeroHash THEN [err |-> "nil payload", bytes |-> <<>>]
       ELSE [err |-> "nil", bytes |-> <<GossipItemTypeTx>> \o TxEncode(item.hash)]
  ELSE IF item.type = GossipItemTypeBlock
  THEN IF item.hash = ZeroHash THEN [err |-> "nil payload", bytes |-> <<>>]
       ELSE [err |-> "nil", bytes |-> <<GossipItemTypeTx>> \o BlockEncode(item.hash)]
  ELSE [err |-> "unknown type", bytes |-> <<>>]

\* BTCGossipMarshaller.MarshalGossip
MarshalGossip(item) ==
  IF item = NilItem THEN [err |-> "nil item", bytes |-> <<>>]
  ELSE IF item.type = GossipItemTypeTx
  THEN IF item.hash = ZeroHash THEN [err |-> "nil payload", bytes |-> <<>>]
       ELSE [err |-> "nil", bytes |-> <<item.type>> \o TxEncode(item.hash)]
  ELSE IF item.type = GossipItemTypeBlock
  THEN IF item.hash = ZeroHash THEN [err |-> "nil payload", bytes |-> <<>>]
       ELSE [err |-> "nil", bytes |-> <<item.type>> \o BlockEncode(item.hash)]
  ELSE [err |-> "unknown type", bytes |-> <<>>]

\* UnmarshalGossip decoding a payload under an unknown discriminator as a
\* transaction.
UnmarshalGossip_defaultTx(data) ==
  IF Len(data) = 0 THEN [err |-> "empty", item |-> NilItem]
  ELSE IF data[1] = GossipItemTypeBlock
  THEN LET r == BlockDecode(Tail(data))
       IN IF r.err # "nil" THEN [err |-> "decode", item |-> NilItem]
          ELSE [err |-> "nil", item |-> BlockItem(r.hash)]
  ELSE LET r == TxDecode(Tail(data))
       IN IF r.err # "nil" THEN [err |-> "decode", item |-> NilItem]
          ELSE [err |-> "nil", item |-> TxItem(r.hash)]

\* BTCGossipMarshaller.UnmarshalGossip
UnmarshalGossip(data) ==
  IF Len(data) = 0 THEN [err |-> "empty", item |-> NilItem]
  ELSE IF data[1] = GossipItemTypeTx
  THEN LET r == TxDecode(Tail(data))
       IN IF r.err # "nil" THEN [err |-> "decode", item |-> NilItem]
          ELSE [err |-> "nil", item |-> [hash |-> r.hash, type |-> data[1]]]
  ELSE IF data[1] = GossipItemTypeBlock
  THEN LET r == BlockDecode(Tail(data))
       IN IF r.err # "nil" THEN [err |-> "decode", item |-> NilItem]
          ELSE [err |-> "nil", item |-> [hash |-> r.hash, type |-> data[1]]]
  ELSE [err |-> "unknown type", item |-> NilItem]

\* The items a caller can hand to MarshalGossip: the well-formed ones, the nil
\* item, items without payload, items of an unknown kind.
MarshalInputs ==
  Items \cup {NilItem}
    \cup {[hash |-> ZeroHash, type |-> k] : k \in {GossipItemTypeTx, GossipItemTypeBlock}}
    \cup {[hash |-> t, type |-> k] : k \in {0, WireBase - 1}, t \in Txs}

\* The byte strings a peer can send.
RECURSIVE ByteStrings(_)
ByteStrings(n) ==
  IF n = 0 THEN {<<>>}
  ELSE LET S == ByteStrings(n - 1)
       IN S \cup {Append(d, x) : d \in {e \in S : Len(e) = n - 1}, x \in 0..(WireBase - 1)}

\* MarshalGossip returning to the caller that handed it wire.item.
MarshalCall ==
  /\ wire.op = "marshal"
  /\ wire' = [op |-> "Marshal", err |-> MarshalGossip(wire.item).err,
              item |-> wire.item,
              bytes |-> MarshalGossip(wire.item).bytes]
  /\ UNCHANGED <<now, shutdown, engineVars, flagVars, txSubmitChan, toEngine,
                 tasks, listener, sig, build, waiters, vmVars, txOrphans,
                 concVars, histVars,
                 builds, calls, bloom, pushed, last, salt, added>>

\* UnmarshalGossip returning to the caller that handed it wire.data.
UnmarshalCall ==
  /\ wire.op = "unmarshal"
  /\ wire' = [op |-> "Unmarshal", err |-> UnmarshalGossip(wire.data).err,
              item |-> UnmarshalGossip(wire.data).item,
              data |-> wire.data]
  /\ UNCHANGED <<now, shutdown, engineVars, flagVars, txSubmitChan, toEngine,
                 tasks, listener, sig, build, waiters, vmVars, txOrphans,
                 concVars, histVars,
                 builds, calls, bloom, pushed, last, salt, added>>

\* ------------------------------------------------------------------------
\* The block lifecycle calls of the host engine
\* ------------------------------------------------------------------------

\* No adapter: the nil a failed call returns.
NilAdapter == [id |-> ZeroHash, parentID |-> ZeroHash, height |-> 0]

\* NewBlockAdapter
NewBlockAdapter(b) ==
  [id |-> hashToID(b), parentID |-> hashToID(ParentOf(b)), height |-> Height(b)]

\* BlockByHashAny finds the blocks stored on any branch.
BlockByHashAny(index, h) == h \in index

\* VM.GetBlock (NewBlockAdapterFromID): the adapter of a block stored on any
\* branch, or no adapter.
getBlock(index, blockID) ==
  IF BlockByHashAny(index, idToHash(blockID))
  THEN NewBlockAdapter(idToHash(blockID)) ELSE NilAdapter

\* NewBlockAdapterFromBytes wrapping the decoded block without handing it
\* to the engine.
ParseBlockOutcome_unprocessed(e, data) ==
  IF BlockDecode(data).err # "nil"
  THEN [engine |-> e, err |-> "deserialize", adapter |-> NilAdapter]
  ELSE [engine |-> e, err |-> "nil", adapter |-> NewBlockAdapter(BlockDecode(data).hash)]

\* VM.ParseBlock (NewBlockAdapterFromBytes) on engine state e: the engine
\* state it leaves, the error and the adapter it returns.
ParseBlockOutcome(e, data) ==
  LET d == BlockDecode(data)
  IN IF d.err # "nil"
     THEN [engine |-> e, err |-> "deserialize", adapter |-> NilAdapter]
     ELSE IF BlockOutcome(e.blockIndex, e.orphans, e.best, d.hash) = "error"
     THEN [engine |-> e, err |-> "process", adapter |-> NilAdapter]
     ELSE IF ~BlockByHashAny(ProcessBlock(e, d.hash).blockIndex, d.hash)
     THEN [engine |-> ProcessBlock(e, d.hash), err |-> "retrieve",
           adapter |-> NilAdapter]
     ELSE [engine |-> ProcessBlock(e, d.hash), err |-> "nil",
           adapter |-> NewBlockAdapter(d.hash)]

\* vmcall.pre is the engine state the call found.
ParseBlockCall(data) ==
  LET r == ParseBlockOutcome(EngineState, data)
  IN /\ ~shutdown
     /\ mempool' = r.engine.mempool
     /\ confirmed' = r.engine.confirmed
     /\ blockIndex' = r.engine.blockIndex
     /\ orphans' = r.engine.orphans
     /\ best' = r.engine.best
     /\ txOrphans' = r.engine.txOrphans
     /\ vmcall' = [op |-> "ParseBlock", pre |-> EngineState, err |-> r.err,
                   acc |-> vmcall.acc, data |-> data, adapter |-> r.adapter]
     /\ last' = NoCall
     /\ UNCHANGED <<now, shutdown, flagVars, txSubmitChan, toEngine, tasks,
                    listener, sig, build, waiters, lastAccepted, preferred,
                    miningAddrs, concVars, histVars, builds, calls, bloom, pushed, salt,
                    added, wire>>

\* The byte strings handed to ParseBlock: the encodings of the blocks and
\* what is left of them when they are cut short.
ParseInputs ==
  UNION {{SubSeq(BlockEncode(b), 1, n) : n \in 0..Len(BlockEncode(b))} :
           b \in Blocks \cup {Genesis}}

\* LastAccepted answering with the preferred block.
LastAccepted_preferred == preferred

\* VM.LastAccepted
LastAccepted == lastAccepted

\* An identity read or written while another goroutine writes it: a value
\* made of bytes of both.
Torn == 0 - 1

\* What an access to an identity can yield besides v: a torn value when
\* BlockAdapter.Accept is at its write of that identity.
Racing(v, pc) == IF accepting.pc = pc THEN {v, Torn} ELSE {v}

\* VM.LastAccepted: vm.lastAccepted is read without vm.blocksMu.
LastAcceptedCall ==
  /\ \E res \in Racing(LastAccepted, "locked") :
       vmcall' = [op |-> "LastAccepted", res |-> res, acc |-> vmcall.acc]
  /\ UNCHANGED <<now, shutdown, engineVars, flagVars, txSubmitChan, toEngine,
                 tasks, listener, sig, build, waiters, lastAccepted, preferred,
                 miningAddrs, txOrphans, concVars, histVars, builds, calls,
                 gossipVars>>

\* VM.HealthCheck: vm.lastAccepted is read without vm.blocksMu.
HealthCheckCall ==
  /\ \E res \in Racing(lastAccepted, "locked") :
       vmcall' = [op |-> "HealthCheck", res |-> res, acc |-> vmcall.acc]
  /\ UNCHANGED <<now, shutdown, engineVars, flagVars, txSubmitChan, toEngine,
                 tasks, listener, sig, build, waiters, lastAccepted, preferred,
                 miningAddrs, txOrphans, concVars, histVars, builds, calls,
                 gossipVars>>

\* VM.SetPreference: vm.preferred is written without vm.blocksMu.
SetPreference(id) ==
  /\ preferred' \in Racing(id, "lastAccepted")
  /\ vmcall' = [op |-> "SetPreference", id |-> id, acc |-> vmcall.acc]
  /\ UNCHANGED <<now, shutdown, engineVars, flagVars, txSubmitChan, toEngine,
                 tasks, listener, sig, build, waiters, lastAccepted,
                 miningAddrs, txOrphans, concVars, histVars, builds, calls,
                 gossipVars>>

\* BlockAdapter.Accept step by step: b.vm.blocksMu.Lock()
Accept_lock(b) ==
  /\ accepting.pc = "idle"
  /\ blocksMu = "free"
  /\ b \in blockIndex
  /\ ParentOf(b) = lastAccepted
  /\ blocksMu' = "Accept"
  /\ accepting' = [id |-> hashToID(b), pc |-> "locked"]
  /\ UNCHANGED <<now, shutdown, engineVars, flagVars, txSubmitChan, toEngine,
                 tasks, listener, sig, build, waiters, vmVars, txOrphans,
                 relayVars, lifeVars, histVars, builds, calls, gossipVars>>

\* b.vm.lastAccepted = b.id
Accept_lastAccepted ==
  /\ accepting.pc = "locked"
  /\ lastAccepted' = accepting.id
  /\ accepting' = [accepting EXCEPT !.pc = "lastAccepted"]
  /\ UNCHANGED <<now, shutdown, engineVars, flagVars, txSubmitChan, toEngine,
                 tasks, listener, sig, build, waiters, preferred, miningAddrs,
                 vmcall, txOrphans, blocksMu, relayVars, lifeVars, histVars,
                 builds, calls, gossipVars>>

\* b.vm.preferred = b.id
Accept_preferred ==
  /\ accepting.pc = "lastAccepted"
  /\ preferred' = accepting.id
  /\ accepting' = [accepting EXCEPT !.pc = "preferred"]
  /\ UNCHANGED <<now, shutdown, engineVars, flagVars, txSubmitChan, toEngine,
                 tasks, listener, sig, build, waiters, lastAccepted, miningAddrs,
                 vmcall, txOrphans, blocksMu, relayVars, lifeVars, histVars,
                 builds, calls, gossipVars>>

\* The return of Accept: the deferred b.vm.blocksMu.Unlock()
Accept_unlock ==
  /\ accepting.pc = "preferred"
  /\ blocksMu' = "free"
  /\ accepting' = [id |-> ZeroHash, pc |-> "idle"]
  /\ vmcall' = [op |-> "Accept", acc |-> accepting.id]
  /\ UNCHANGED <<now, shutdown, engineVars, flagVars, txSubmitChan, toEngine,
                 tasks, listener, sig, build, waiters, lastAccepted, preferred,
                 miningAddrs, txOrphans, relayVars, lifeVars, histVars, builds,
                 calls, gossipVars>>

\* ------------------------------------------------------------------------
\* Specifications
\* ------------------------------------------------------------------------

\* The fields of the VM and of the dedup set that no call has touched yet:
\* unlocked mutexes, no gossip context, an empty wait group.
Idle ==
  /\ txOrphans = {}
  /\ blocksMu = "free"
  /\ accepting = [id |-> ZeroHash, pc |-> "idle"]
  /\ lock = "free"
  /\ adding = NotAdding
  /\ relays = EmptyBag
  /\ bootstrapped = FALSE
  /\ stopped = FALSE
  /\ gossipCtx = 0
  /\ cancelled = {}
  /\ shutdownWg = 0
  /\ loops = EmptyBag
  /\ stopping = [n |-> 0, pc |-> "idle", res |-> "none"]

Init ==
  /\ now = 1
  /\ shutdown = FALSE
  /\ mempool = {}
  /\ confirmed = {}
  /\ blockIndex = {Genesis}
  /\ orphans = {}
  /\ best = Genesis
  /\ hasPendingTxs = FALSE
  /\ lastBuildTime = ZeroTime
  /\ lastBuildParentHash = ZeroHash
  /\ txSubmitChan = 0
  /\ toEngine = 0
  /\ tasks = EmptyBag
  /\ listener = "off"
  /\ sig = [c \in Callers |-> "no"]
  /\ build = [pc |-> "idle", at |-> ZeroTime, parent |-> ZeroHash, res |-> "none",
              err |-> "nil", blk |-> ZeroHash, tmpl |-> ZeroHash]
  /\ waiters = [w \in Waiters |->
       [cancelled |-> FALSE, bridge |-> "none", pc |-> "idle", due |-> ZeroTime,
        res |-> "none", blocked |-> FALSE, cleared |-> FALSE]]
  /\ lastAccepted = Genesis
  /\ preferred = Genesis
  /\ miningAddrs = <<"addr">>
  /\ vmcall = [op |-> "none", acc |-> hashToID(Genesis)]
  /\ window = [tasks |-> 0, events |-> 0, by |-> "none", notes |-> 0,
               at |-> ZeroTime, parent |-> ZeroHash]
  /\ dropped = FALSE
  /\ builds = 0
  /\ calls = 0
  /\ bloom = {}
  /\ pushed = {}
  /\ last = NoCall
  /\ salt = FirstSalt
  /\ added = {}
  /\ wire = NoCall
  /\ Idle

\* The block builder, BuildBlock and Accept, without WaitForEvent callers
\* and without shutdown.
Next ==
  \/ initBlockBuilding
  \/ awaitTxSubmissions_recv
  \/ \E c \in Callers : signalCanBuild_go(c)
  \/ \E t \in BagToSet(tasks) :
       \/ \E ok \in BOOLEAN : scheduleBlockBuild_start(t, ok)
       \/ scheduleBlockBuild_timer(t)
       \/ scheduleBlockBuild_notify(t)
       \/ scheduleBlockBuild_clear(t)
  \/ BuildBlock
  \/ \E b \in Blocks : Accept(b)
  \/ \E t \in Txs : TxSubmitted(t)
  \/ EngineRecv
  \/ \E x \in Deadlines : Tick(x)

Spec == Init /\ [][Next]_vars

\* The block builder and BuildBlock alone: the host engine accepts no block.
BuilderNext ==
  \/ initBlockBuilding
  \/ awaitTxSubmissions_recv
  \/ \E c \in Callers : signalCanBuild_go(c)
  \/ \E t \in BagToSet(tasks) :
       \/ \E ok \in BOOLEAN : scheduleBlockBuild_start(t, ok)
       \/ scheduleBlockBuild_timer(t)
       \/ scheduleBlockBuild_notify(t)
       \/ scheduleBlockBuild_clear(t)
  \/ BuildBlock
  \/ \E t \in Txs : TxSubmitted(t)
  \/ EngineRecv
  \/ \E x \in Deadlines : Tick(x)

BuilderSpec == Init /\ [][BuilderNext]_vars

\* A BuildBlock call at the first instant found the mempool empty and failed.
WaitInit ==
  \E attempted \in BOOLEAN :
    /\ now = 1
    /\ shutdown = FALSE
    /\ mempool = {}
    /\ confirmed = {}
    /\ blockIndex = {Genesis}
    /\ orphans = {}
    /\ best = Genesis
    /\ hasPendingTxs = FALSE
    /\ lastBuildTime = IF attempted THEN 1 ELSE ZeroTime
    /\ lastBuildParentHash = IF attempted THEN Genesis ELSE ZeroHash
    /\ txSubmitChan = 0
    /\ toEngine = 0
    /\ tasks = EmptyBag
    /\ listener = "off"
    /\ sig = [c \in Callers |-> "no"]
    /\ build = IF attempted
               THEN [pc |-> "idle", at |-> 1, parent |-> Genesis, res |-> "error",
                     err |-> "template", blk |-> ZeroHash, tmpl |-> ZeroHash]
               ELSE [pc |-> "idle", at |-> ZeroTime, parent |-> ZeroHash, res |-> "none",
                     err |-> "nil", blk |-> ZeroHash, tmpl |-> ZeroHash]
    /\ waiters = [w \in Waiters |->
         [cancelled |-> FALSE, bridge |-> "none", pc |-> "idle", due |-> ZeroTime,
          res |-> "none", blocked |-> FALSE, cleared |-> FALSE]]
    /\ lastAccepted = Genesis
    /\ preferred = Genesis
    /\ miningAddrs = <<"addr">>
    /\ vmcall = [op |-> "none", acc |-> hashToID(Genesis)]
    /\ window = [tasks |-> 0, events |-> 0, by |-> "none", notes |-> 0,
                 at |-> ZeroTime, parent |-> ZeroHash]
    /\ dropped = FALSE
    /\ builds = IF attempted THEN 1 ELSE 0
    /\ calls = 0
    /\ bloom = {}
    /\ pushed = {}
    /\ last = NoCall
    /\ salt = FirstSalt
    /\ added = {}
    /\ wire = NoCall
    /\ Idle

\* WaitForEvent callers against the block builder's goroutines, with
\* per-call cancellation and shutdown; a peer's block that carries
\* transaction 1 can arrive by gossip.
WaitNext ==
  \/ initBlockBuilding
  \/ awaitTxSubmissions_recv
  \/ awaitTxSubmissions_exit
  \/ \E c \in Callers : signalCanBuild_go(c)
  \/ scheduleBlockBuild
  \/ waitForEvent
  \/ Add(BlockItem(Genesis + 1), TRUE)
  \/ Shutdown
  \/ \E t \in Txs : TxSubmitted(t)
  \/ EngineRecv
  \/ \E x \in Deadlines : Tick(x)

WaitSpec == WaitInit /\ [][WaitNext]_vars

\* The steps of one waitForEvent call, and of its bridging goroutine.
waitForEvent_run(w) ==
  \/ waitForNeedToBuild_loop(w)
  \/ waitForNeedToBuild_signaled(w)
  \/ waitForNeedToBuild_ctxDone(w)
  \/ waitForNeedToBuild_shutdown(w)
  \/ waitForNeedToBuild_join(w)
  \/ \E ok \in BOOLEAN : waitForEvent_calc(w, ok)
  \/ \E case \in {"ctx", "timer", "shutdown"} : waitForEvent_select(w, case)

bridge_run(w) == bridge_wait(w) \/ bridge_close(w)

\* The Go scheduler runs every runnable goroutine, and time passes; the
\* arrival of transactions, cancellation and shutdown are not forced.
WaitFairness ==
  /\ WF_vars(awaitTxSubmissions_recv)
  /\ WF_vars(awaitTxSubmissions_exit)
  /\ WF_vars(\E c \in Callers : signalCanBuild_go(c))
  /\ WF_vars(scheduleBlockBuild)
  /\ WF_vars(EngineRecv)
  /\ WF_vars(\E x \in Deadlines : Tick(x))
  /\ \A w \in Waiters : WF_vars(waitForEvent_run(w)) /\ WF_vars(bridge_run(w))

WaitFairSpec == WaitSpec /\ WaitFairness

\* The ids a peer can ask about.
Ids == {GossipID(item) : item \in Items}

\* The dedup set over the engine, with transactions also submitted locally.
GossipNext ==
  \/ \E item \in Items, lookupOk \in BOOLEAN : Add(item, lookupOk)
  \/ \E id \in Ids, lookupOk \in BOOLEAN : HasCall(id, lookupOk)
  \/ \E order \in Orderings(TxDescs(mempool)) :
       \E stop \in 0..Len(order) : IterateCall(order, stop)
  \/ GetFilterCall
  \/ \E t \in Txs : TxSubmitted(t)
  \/ \E t \in Txs : OrphanHeld(t)

GossipSpec == Init /\ [][GossipNext]_vars

\* Add step by step against the goroutines of the block-connected callback
\* and against GetFilter.
RelayNext ==
  \/ \E item \in Items, lookupOk \in BOOLEAN : Add_lock(item, lookupOk)
  \/ Add_process
  \/ Add_return
  \/ \E g \in BagToSet(relays) : OnBlockRelay_go(g)
  \/ GetFilterCall

RelaySpec == Init /\ [][RelayNext]_vars

\* The VM configured with no mining address, with one that does not decode,
\* or with a good one.
BuildInit ==
  /\ now = 1
  /\ shutdown = FALSE
  /\ mempool = {}
  /\ confirmed = {}
  /\ blockIndex = {Genesis}
  /\ orphans = {}
  /\ best = Genesis
  /\ hasPendingTxs = FALSE
  /\ lastBuildTime = ZeroTime
  /\ lastBuildParentHash = ZeroHash
  /\ txSubmitChan = 0
  /\ toEngine = 0
  /\ tasks = EmptyBag
  /\ listener = "off"
  /\ sig = [c \in Callers |-> "no"]
  /\ build = [pc |-> "idle", at |-> ZeroTime, parent |-> ZeroHash, res |-> "none",
              err |-> "nil", blk |-> ZeroHash, tmpl |-> ZeroHash]
  /\ waiters = [w \in Waiters |->
       [cancelled |-> FALSE, bridge |-> "none", pc |-> "idle", due |-> ZeroTime,
        res |-> "none", blocked |-> FALSE, cleared |-> FALSE]]
  /\ lastAccepted = Genesis
  /\ preferred = Genesis
  /\ miningAddrs \in {<<>>, <<"bad">>, <<"addr">>}
  /\ vmcall = [op |-> "none", acc |-> hashToID(Genesis)]
  /\ window = [tasks |-> 0, events |-> 0, by |-> "none", notes |-> 0,
               at |-> ZeroTime, parent |-> ZeroHash]
  /\ dropped = FALSE
  /\ builds = 0
  /\ calls = 0
  /\ bloom = {}
  /\ pushed = {}
  /\ last = NoCall
  /\ salt = FirstSalt
  /\ added = {}
  /\ wire = NoCall
  /\ Idle

\* BuildBlock calls with transactions and blocks of peers arriving; the
\* template generator may hand BuildBlock any block.  The goroutines signalCanBuild starts are not
\* followed.
BuildNext ==
  \/ \E ok \in BOOLEAN : BuildBlock_start(ok)
  \/ handleBuildAttempt_clear
  \/ handleBuildAttempt_need
  \/ handleBuildAttempt_signal
  \/ \E c \in Callers : signalCanBuild_go(c)
  \/ \E b \in Blocks \cup {0} : BuildBlock_finish(b)
  \/ clearPendingSignal
  \/ \E t \in Txs : TxSubmitted(t)
  \/ \E b \in Blocks : Add(BlockItem(b), TRUE)

BuildSpec == BuildInit /\ [][BuildNext]_vars

\* The block lifecycle calls of the host engine, with blocks and
\* transactions arriving.
VMNext ==
  \/ \E data \in ParseInputs : ParseBlockCall(data)
  \/ \E b \in Blocks : Accept(b)
  \/ LastAcceptedCall
  \/ \E b \in blockIndex : SetPreference(hashToID(b))
  \/ \E t \in Txs : TxSubmitted(t)

VMSpec == Init /\ [][VMNext]_vars

\* The block lifecycle calls made from several goroutines of the host:
\* Accept step by step, against SetPreference, LastAccepted and HealthCheck.
LockNext ==
  \/ \E data \in ParseInputs : ParseBlockCall(data)
  \/ \E b \in Blocks : Accept_lock(b)
  \/ Accept_lastAccepted
  \/ Accept_preferred
  \/ Accept_unlock
  \/ LastAcceptedCall
  \/ HealthCheckCall
  \/ \E b \in blockIndex : SetPreference(hashToID(b))

LockSpec == Init /\ [][LockNext]_vars

\* A call of the marshaller is in progress, with an item or a byte string.
CodecInit ==
  /\ now = 1
  /\ shutdown = FALSE
  /\ mempool = {}
  /\ confirmed = {}
  /\ blockIndex = {Genesis}
  /\ orphans = {}
  /\ best = Genesis
  /\ hasPendingTxs = FALSE
  /\ lastBuildTime = ZeroTime
  /\ lastBuildParentHash = ZeroHash
  /\ txSubmitChan = 0
  /\ toEngine = 0
  /\ tasks = EmptyBag
  /\ listener = "off"
  /\ sig = [c \in Callers |-> "no"]
  /\ build = [pc |-> "idle", at |-> ZeroTime, parent |-> ZeroHash, res |-> "none",
              err |-> "nil", blk |-> ZeroHash, tmpl |-> ZeroHash]
  /\ waiters = [w \in Waiters |->
       [cancelled |-> FALSE, bridge |-> "none", pc |-> "idle", due |-> ZeroTime,
        res |-> "none", blocked |-> FALSE, cleared |-> FALSE]]
  /\ lastAccepted = Genesis
  /\ preferred = Genesis
  /\ miningAddrs = <<"addr">>
  /\ vmcall = [op |-> "none", acc |-> hashToID(Genesis)]
  /\ window = [tasks |-> 0, events |-> 0, by |-> "none", notes |-> 0,
               at |-> ZeroTime, parent |-> ZeroHash]
  /\ dropped = FALSE
  /\ builds = 0
  /\ calls = 0
  /\ bloom = {}
  /\ pushed = {}
  /\ last = NoCall
  /\ salt = FirstSalt
  /\ added = {}
  /\ wire \in {[op |-> "marshal", item |-> item] : item \in MarshalInputs}
            \cup {[op |-> "unmarshal", data |-> data] : data \in ByteStrings(MaxData)}
  /\ Idle

\* The marshaller applied to the items and to the byte strings.
CodecNext ==
  \/ MarshalCall
  \/ UnmarshalCall

CodecSpec == CodecInit /\ [][CodecNext]_vars

\* ------------------------------------------------------------------------
\* Shutdown against the select of scheduleBlockBuild
\* ------------------------------------------------------------------------

\* A goroutine blocked in a select is woken by the first of its cases that
\* becomes ready and takes that case: closing shutdownChan (shut) aborts the
\* goroutines blocked in the select of scheduleBlockBuild, a timer reaching
\* its instant by time x sends them on to the re-check.
Wake(ts, shut, x) ==
  LET woken(t) == IF t.pc # "blocked" THEN t
                  ELSE IF shut THEN [t EXCEPT !.pc = "aborted"]
                  ELSE IF t.due <= x THEN [t EXCEPT !.pc = "check"]
                  ELSE t
      S == BagToSet(ts)
  IN [r \in {woken(t) : t \in S} |->
        LET pre == {t \in S : woken(t) = r}
            sum[Q \in SUBSET pre] ==
              IF Q = {} THEN 0
              ELSE LET q == CHOOSE y \in Q : TRUE IN ts[q] + sum[Q \ {q}]
        IN sum[pre]]

\* scheduleBlockBuild reaching its select with the timer running: it takes a
\* case that is ready, either one when both are, and blocks when none is.
scheduleBlockBuild_select(t) ==
  /\ t.pc = "timer"
  /\ \/ /\ now >= t.due
        /\ TaskStep(t, [t EXCEPT !.pc = "check"])
     \/ /\ shutdown
        /\ TaskExit(t)
     \/ /\ now < t.due
        /\ ~shutdown
        /\ TaskStep(t, [t EXCEPT !.pc = "blocked"])
  /\ UNCHANGED <<gossipVars, now, shutdown, engineVars, flagVars, txSubmitChan,
                 toEngine, listener, sig, build, waiters, vmVars, txOrphans,
                 concVars, histVars,
                 builds, calls>>

\* scheduleBlockBuild woken in its select by shutdownChan: return.
scheduleBlockBuild_aborted(t) ==
  /\ t.pc = "aborted"
  /\ TaskExit(t)
  /\ UNCHANGED <<gossipVars, now, shutdown, engineVars, flagVars, txSubmitChan,
                 toEngine, listener, sig, build, waiters, vmVars, txOrphans,
                 concVars, histVars,
                 builds, calls>>

\* VM.Shutdown closing shutdownChan without waking the goroutines blocked on
\* it.
ShutdownWaking_unobserved ==
  /\ ~shutdown
  /\ shutdown' = TRUE
  /\ waiters' = [w \in Waiters |->
       [waiters[w] EXCEPT !.blocked = @ \/ waiters[w].pc \in {"select", "timer"}]]
  /\ UNCHANGED <<gossipVars, now, engineVars, flagVars, txSubmitChan, toEngine,
                 tasks, listener, sig, build, vmVars, txOrphans,
                 concVars, histVars, builds, calls>>

\* VM.Shutdown: close(vm.shutdownChan), seen by the goroutines blocked on it.
ShutdownWaking ==
  /\ ~shutdown
  /\ shutdown' = TRUE
  /\ tasks' = Wake(tasks, TRUE, now)
  /\ waiters' = [w \in Waiters |->
       [waiters[w] EXCEPT !.blocked = @ \/ waiters[w].pc \in {"select", "timer"}]]
  /\ UNCHANGED <<gossipVars, now, engineVars, flagVars, txSubmitChan, toEngine,
                 listener, sig, build, vmVars, txOrphans,
                 concVars, histVars, builds, calls>>

\* The instants at which a timer of scheduleBlockBuild fires or
\* calculateBuildingDelay changes its answer.
TaskDeadlines ==
  {t.due : t \in {u \in BagToSet(tasks) : u.pc \in {"timer", "blocked"}}}
    \cup (IF lastBuildTime = ZeroTime THEN {}
          ELSE {TimeAdd(lastBuildTime, RetryDelay),
                TimeAdd(lastBuildTime, TargetBlockTime)})

\* Time passes, up to the next such instant; the timers that fire wake
\* their goroutines.
TickWaking(x) ==
  /\ x > now
  /\ now' = x
  /\ tasks' = Wake(tasks, FALSE, x)
  /\ UNCHANGED <<gossipVars, shutdown, engineVars, flagVars, txSubmitChan, toEngine,
                 listener, sig, build, waiters, vmVars, txOrphans,
                 concVars, histVars, builds, calls>>

\* The listener and the scheduleBlockBuild goroutines against shutdown,
\* started as in WaitInit; a peer's block that carries transaction 1 can
\* arrive by gossip.
ShutdownNext ==
  \/ initBlockBuilding
  \/ awaitTxSubmissions_recv
  \/ awaitTxSubmissions_exit
  \/ \E c \in Callers : signalCanBuild_go(c)
  \/ \E t \in BagToSet(tasks) :
       \/ \E ok \in BOOLEAN : scheduleBlockBuild_start(t, ok)
       \/ scheduleBlockBuild_select(t)
       \/ scheduleBlockBuild_aborted(t)
       \/ scheduleBlockBuild_notify(t)
       \/ scheduleBlockBuild_clear(t)
  \/ Add(BlockItem(Genesis + 1), TRUE)
  \/ ShutdownWaking
  \/ \E t \in Txs : TxSubmitted(t)
  \/ EngineRecv
  \/ \E x \in TaskDeadlines : TickWaking(x)

ShutdownSpec == WaitInit /\ [][ShutdownNext]_vars

\* The steps of the scheduleBlockBuild goroutines in ShutdownSpec.
scheduleBlockBuild_run ==
  \E t \in BagToSet(tasks) :
    \/ \E ok \in BOOLEAN : scheduleBlockBuild_start(t, ok)
    \/ scheduleBlockBuild_select(t)
    \/ scheduleBlockBuild_aborted(t)
    \/ scheduleBlockBuild_notify(t)
    \/ scheduleBlockBuild_clear(t)

\* The Go scheduler runs every runnable goroutine, and time passes.
ShutdownFairness ==
  /\ WF_vars(awaitTxSubmissions_recv)
  /\ WF_vars(awaitTxSubmissions_exit)
  /\ WF_vars(\E c \in Callers : signalCanBuild_go(c))
  /\ WF_vars(scheduleBlockBuild_run)
  /\ WF_vars(\E x \in TaskDeadlines : TickWaking(x))

ShutdownFairSpec == ShutdownSpec /\ ShutdownFairness

\* ------------------------------------------------------------------------
\* The gossip loops: SetState, startGossipLoops, Shutdown
\* ------------------------------------------------------------------------

\* The host makes its calls of SetState and Shutdown one at a time, and
\* none after a Shutdown call has begun to tear the VM down.
HostIdle == stopping.pc = "idle" /\ ~stopped /\ ~shutdown

\* The goroutines startGossipLoops starts: each has still to read
\* vm.gossipCtx (ctx 0) when it is created.
NewLoops == SetToBag({[pc |-> "start", kind |-> k, ctx |-> 0] : k \in {"push", "pull"}})

\* Replace / remove one goroutine of the bag of gossip loops.
LoopStep(g, g2) == loops' = (loops (-) SetToBag({g})) (+) SetToBag({g2})
LoopExit(g) == loops' = loops (-) SetToBag({g})

\* SetState(StateSyncing) and SetState(Bootstrapping).
SetState_Bootstrapping ==
  /\ HostIdle
  /\ bootstrapped
  /\ bootstrapped' = FALSE
  /\ UNCHANGED <<stopped, gossipCtx, cancelled, shutdownWg, loops, stopping>>
  /\ UNCHANGED <<gossipVars, now, shutdown, engineVars, flagVars, txSubmitChan,
                 toEngine, tasks, listener, sig, build, waiters, vmVars,
                 txOrphans, lockVars, relayVars, histVars, builds, calls>>

\* SetState(NormalOp) when the VM is not bootstrapped:
\* onNormalOperationsStarted stores a new context and its cancel function in
\* vm.gossipCtx and vm.cancel, replacing those of an earlier start;
\* initializeGossip succeeds (ok) or fails; if it succeeded, startGossipLoops
\* adds two to the wait group and starts the two goroutines, and
\* initBlockBuilding starts the block builder. A further start adds a
\* listener goroutine that behaves as the first; one listener is kept.
SetState_NormalOp(ok) ==
  /\ HostIdle
  /\ ~bootstrapped
  /\ gossipCtx < MaxStarts
  /\ bootstrapped' = TRUE
  /\ gossipCtx' = gossipCtx + 1
  /\ IF ok
     THEN /\ shutdownWg' = shutdownWg + 2
          /\ loops' = loops (+) NewLoops
          /\ listener' = "run"
          /\ IF needToBuild THEN signalCanBuild_cs("init")
             ELSE UNCHANGED <<hasPendingTxs, sig, tasks, window>>
     ELSE UNCHANGED <<shutdownWg, loops, listener, hasPendingTxs, sig, tasks,
                      window>>
  /\ UNCHANGED <<stopped, cancelled, stopping>>
  /\ UNCHANGED <<gossipVars, now, shutdown, engineVars, lastBuildTime,
                 lastBuildParentHash, txSubmitChan, toEngine, build, waiters,
                 vmVars, txOrphans, lockVars, relayVars, dropped, builds, calls>>

\* What a gossip loop step leaves alone.
LoopFrame ==
  UNCHANGED <<gossipVars, now, shutdown, engineVars, flagVars, txSubmitChan,
              toEngine, tasks, listener, sig, build, waiters, vmVars,
              txOrphans, lockVars, relayVars, histVars, builds, calls,
              bootstrapped, stopped, gossipCtx, cancelled, stopping>>

\* A gossip goroutine starts: it reads vm.gossipCtx, the context of the
\* latest start by now, and enters gossip.Every.
Every_start(g) ==
  /\ g \in BagToSet(loops)
  /\ g.pc = "start"
  /\ LoopStep(g, [g EXCEPT !.pc = "select", !.ctx = gossipCtx])
  /\ UNCHANGED shutdownWg
  /\ LoopFrame

\* gossip.Every: the ticker case of the select begins a gossip round.
Every_tick(g) ==
  /\ g \in BagToSet(loops)
  /\ g.pc = "select"
  /\ LoopStep(g, [g EXCEPT !.pc = "gossip"])
  /\ UNCHANGED shutdownWg
  /\ LoopFrame

\* gossip.Every: the round is over, back to the select.
Every_gossiped(g) ==
  /\ g \in BagToSet(loops)
  /\ g.pc = "gossip"
  /\ LoopStep(g, [g EXCEPT !.pc = "select"])
  /\ UNCHANGED shutdownWg
  /\ LoopFrame

\* gossip.Every: the Done case of the select; the goroutine returns and its
\* deferred shutdownWg.Done() runs.
Every_done(g) ==
  /\ g \in BagToSet(loops)
  /\ g.pc = "select"
  /\ g.ctx \in cancelled
  /\ LoopExit(g)
  /\ shutdownWg' = shutdownWg - 1
  /\ LoopFrame

\* What a step of Shutdown leaves alone.
ShutdownFrame ==
  UNCHANGED <<gossipVars, now, engineVars, flagVars, txSubmitChan, toEngine,
              tasks, listener, sig, build, vmVars, txOrphans, lockVars,
              relayVars, histVars, builds, calls, bootstrapped, gossipCtx,
              shutdownWg, loops>>

\* VM.Shutdown is called: a stopped VM returns nil at once.
Shutdown_call ==
  /\ stopping.pc = "idle"
  /\ stopping.n < MaxShutdowns
  /\ stopping' = IF stopped
                 THEN [n |-> stopping.n + 1, pc |-> "idle", res |-> "nil"]
                 ELSE [n |-> stopping.n + 1, pc |-> "cancel", res |-> "none"]
  /\ UNCHANGED <<shutdown, waiters, stopped, cancelled>>
  /\ ShutdownFrame

\* VM.Shutdown: vm.cancel(), when a gossip context was ever made.
Shutdown_cancel ==
  /\ stopping.pc = "cancel"
  /\ cancelled' = IF gossipCtx # 0 THEN cancelled \cup {gossipCtx} ELSE cancelled
  /\ stopping' = [stopping EXCEPT !.pc = "close"]
  /\ UNCHANGED <<shutdown, waiters, stopped>>
  /\ ShutdownFrame

\* VM.Shutdown: close(vm.shutdownChan).
Shutdown_close ==
  /\ stopping.pc = "close"
  /\ shutdown' = TRUE
  /\ waiters' = [w \in Waiters |->
       [waiters[w] EXCEPT !.blocked = @ \/ waiters[w].pc \in {"select", "timer"}]]
  /\ stopping' = [stopping EXCEPT !.pc = "wait"]
  /\ UNCHANGED <<stopped, cancelled>>
  /\ ShutdownFrame

\* A Shutdown that does not wait for the gossip goroutines.
Shutdown_wait_unblocked ==
  /\ stopping.pc = "wait"
  /\ stopped' = TRUE
  /\ stopping' = [stopping EXCEPT !.pc = "idle", !.res = "nil"]
  /\ UNCHANGED <<shutdown, waiters, cancelled>>
  /\ ShutdownFrame

\* VM.Shutdown: shutdownWg.Wait() returns once the counter is zero; the VM
\* is marked stopped and the call returns nil.
Shutdown_wait ==
  /\ stopping.pc = "wait"
  /\ shutdownWg = 0
  /\ stopped' = TRUE
  /\ stopping' = [stopping EXCEPT !.pc = "idle", !.res = "nil"]
  /\ UNCHANGED <<shutdown, waiters, cancelled>>
  /\ ShutdownFrame

LifeNext ==
  \/ \E ok \in BOOLEAN : SetState_NormalOp(ok)
  \/ SetState_Bootstrapping
  \/ \E g \in BagToSet(loops) : Every_start(g)
  \/ \E g \in BagToSet(loops) : Every_tick(g)
  \/ \E g \in BagToSet(loops) : Every_gossiped(g)
  \/ \E g \in BagToSet(loops) : Every_done(g)
  \/ awaitTxSubmissions_exit
  \/ Shutdown_call
  \/ Shutdown_cancel
  \/ Shutdown_close
  \/ Shutdown_wait

LifeSpec == Init /\ [][LifeNext]_vars

\* The Go scheduler runs every runnable goroutine and the Shutdown call;
\* a select with its Done case ready takes that case sooner or later.
LifeFairness ==
  /\ WF_vars(\E g \in BagToSet(loops) : Every_start(g))
  /\ WF_vars(\E g \in BagToSet(loops) : Every_gossiped(g))
  /\ SF_vars(\E g \in BagToSet(loops) : Every_done(g))
  /\ WF_vars(awaitTxSubmissions_exit)
  /\ WF_vars(Shutdown_cancel)
  /\ WF_vars(Shutdown_close)
  /\ WF_vars(Shutdown_wait)

LifeFairSpec == LifeSpec /\ LifeFairness

\* ------------------------------------------------------------------------
\* Properties of the block builder
\* ------------------------------------------------------------------------

\* Goroutines of the current pending window that are running.
CurTasks == {t \in BagToSet(tasks) : t.cur}

AliveInWindow == BagCardinality([t \in CurTasks |-> tasks[t]])

\* signalCanBuild calls that opened the current window and have not yet
\* reached their `go` statement.
Registered == Cardinality({c \in Callers : sig[c] = "go"})

\* C1: in every reachable state at most one scheduleBlockBuild goroutine is
\* alive (spawned and not yet exited).
C1_AtMostOneTaskAlive == BagCardinality(tasks) <= 1

\* C2: the signalCanBuild calls made while hasPendingTxs is set are coalesced:
\* a pending window has exactly one scheduleBlockBuild goroutine (registered
\* by the call that opened the window, or started), no call that found the
\* flag set adds one, and at most one notification is sent for the window.
C2_Coalescing ==
  /\ window.tasks + Registered <= 1
  /\ hasPendingTxs => window.tasks + Registered = 1
  /\ AliveInWindow <= window.tasks
  /\ window.notes <= window.tasks

\* Two events were coalesced into a window whose one goroutine has notified.
C2_Witness ==
  /\ hasPendingTxs
  /\ window.events >= 2
  /\ window.tasks = 1
  /\ window.notes = 1

\* C3: after a notification was dropped because toEngine was full, with
\* transactions still pending, the next transaction-accepted event handled
\* by the listener starts a new scheduleBlockBuild goroutine.
C3_EventAfterDropStartsTask ==
  [][(dropped /\ needToBuild /\ txSubmitChan' = txSubmitChan - 1)
       => sig'["listener"] = "go"]_vars

\* A pending-transactions signal is given to the host engine in this step.
SignalGiven ==
  \/ toEngine' = toEngine + 1
  \/ \E w \in Waiters : /\ waiters[w].pc # "idle"
                        /\ waiters'[w].pc = "idle"
                        /\ waiters'[w].res = "PendingTxs"

\* C4: once a build attempt is recorded, a signal is given no earlier than
\* lastBuildTime + RetryDelay when the best block is lastBuildParentHash and
\* no earlier than lastBuildTime + TargetBlockTime otherwise, all taken at the
\* moment of the signal.
C4_SignalNotBeforeDelay ==
  [][(SignalGiven /\ lastBuildTime' # ZeroTime)
       => now' >= TimeAdd(lastBuildTime',
                          IF best' = lastBuildParentHash' THEN RetryDelay
                          ELSE TargetBlockTime)]_vars

\* C5: after a build attempt against parent P that re-signals because
\* transactions are pending, while the best block stays P: the attempt's
\* signalCanBuild leaves the builder Pending, and the goroutine of the window
\* it opened waits the retry interval counted from the attempt (its timer is
\* due no later than RetryDelay ahead and no earlier than RetryDelay after the
\* attempt) and reaches the notification only when that instant has come.
C5_RetryAfterFailedAttempt ==
  /\ (build.pc = "build" /\ sig["build"] = "go") => window.by = "build"
  /\ \A t \in CurTasks :
       (window.by = "build" /\ best = window.parent /\ t.pc # "start")
         => /\ t.due <= TimeAdd(now, RetryDelay)
            /\ t.due >= TimeAdd(window.at, RetryDelay)
            /\ t.pc \in {"check", "clear"} => now >= t.due

\* The attempt failed, the best block is still its parent, and the goroutine
\* started by the attempt is about to notify, RetryDelay after the attempt.
C5_Witness ==
  /\ build.pc = "idle"
  /\ build.res = "error"
  /\ window.by = "build"
  /\ best = window.parent
  /\ needToBuild
  /\ now = TimeAdd(window.at, RetryDelay)
  /\ \E t \in CurTasks : t.pc = "check" /\ t.due = now

\* C6: a step that accepts a block leaves hasPendingTxs, lastBuildTime and
\* lastBuildParentHash unchanged, registers and starts no scheduleBlockBuild
\* goroutine and sends no notification.
C6_AcceptLeavesBuilderAlone ==
  [][lastAccepted' # lastAccepted
       => UNCHANGED <<flagVars, sig, tasks, toEngine, window>>]_vars

\* A block built here has been accepted and the builder is Idle.
C6_Witness ==
  /\ lastAccepted # Genesis
  /\ ~hasPendingTxs
  /\ tasks = EmptyBag
  /\ \A c \in Callers : sig[c] = "no"
  /\ toEngine = 0

\* ------------------------------------------------------------------------
\* Properties of waitForEvent
\* ------------------------------------------------------------------------

\* C7: a waitForEvent call whose context was cancelled, or that saw shutdown,
\* while it was blocked in the wait for a pending transaction or in the delay
\* timer eventually returns.
C7_CancelledCallReturns ==
  \A w \in Waiters :
    (waiters[w].pc \in {"select", "timer"} /\ waiters[w].blocked)
      ~> (waiters[w].pc = "idle")

\* C8: when hasPendingTxs is set while waitForNeedToBuild is past its loop
\* condition and in its select, the call leaves the select.
C8_SignalNotMissed ==
  \A w \in Waiters :
    (waiters[w].pc = "select" /\ hasPendingTxs) ~> (waiters[w].pc # "select")

\* ------------------------------------------------------------------------
\* Properties of the gossip dedup set
\* ------------------------------------------------------------------------

\* The engine accepted the item or had it: a transaction in the pool, a valid
\* block whose parent is stored.
EngineHolds(item) ==
  IF item.type = GossipItemTypeTx THEN item.hash \in mempool
  ELSE item.hash \notin InvalidBlocks /\ ParentOf(item.hash) \in blockIndex

GroundTruth(id) ==
  HaveTransaction(mempool, idToHash(id)) \/ HaveBlock(blockIndex, idToHash(id))

\* C10 as stated: Has(id) is true exactly when the pool has a transaction or
\* the block index has a block with that hash.
C10_HasIsGroundTruth == last.op = "Has" => (last.res <=> GroundTruth(last.id))

\* C10, amended: Has(id) is true exactly when the pool has a transaction with
\* that hash, or the block lookup succeeds and the block index has a block
\* with that hash; what the filter contains does not matter.
C10_HasIsGroundTruthUnlessLookupFails ==
  last.op = "Has"
    => (last.res <=> \/ HaveTransaction(mempool, idToHash(last.id))
                     \/ last.ok /\ HaveBlock(blockIndex, idToHash(last.id)))

\* The lookup succeeded for an id that is marked known in the filter and
\* that the engine does not hold: Has answered false.
C10_Witness ==
  /\ last.op = "Has"
  /\ last.ok
  /\ last.id \in bloom
  /\ ~GroundTruth(last.id)
  /\ ~last.res

\* C11: when Add is given a transaction that the pool does not hold and that
\* the engine rejects, Add hands it to the engine, returns the engine's error,
\* leaves the engine and the filter as they were, and a further Add of the
\* same transaction would be handed to the engine again.
C11_RejectedTxNotMarked ==
  (/\ last.op = "Add"
   /\ last.item.type = GossipItemTypeTx
   /\ ~HaveTransaction(last.pre.mempool, last.item.hash)
   /\ ~TxAcceptable(last.pre.mempool, last.pre.confirmed, last.item.hash))
    => /\ last.submitted
       /\ last.err = "rejected"
       /\ bloom = last.filter
       /\ EngineState = last.pre
       /\ AddOutcome(EngineState, last.item, TRUE).submitted

\* A rejected transaction has been added twice in a row: the second call
\* reached the engine too and the filter does not know the transaction.
C11_Witness ==
  /\ last.op = "Add"
  /\ last.n = 2
  /\ last.item.type = GossipItemTypeTx
  /\ last.item.hash \in InvalidTxs
  /\ last.submitted
  /\ last.err = "rejected"
  /\ GossipID(last.item) \notin bloom

\* C12 as stated: when Add is given a block the block index does not hold,
\* Add hands it to block processing, returns success and marks it known.
C12_NewBlockAlwaysMarked ==
  (/\ last.op = "Add"
   /\ last.item.type = GossipItemTypeBlock
   /\ ~HaveBlock(last.pre.blockIndex, last.item.hash))
    => /\ last.submitted
       /\ last.err = "nil"
       /\ GossipID(last.item) \in bloom

\* C12, amended: when Add is given a block the block index does not hold and
\* the block lookup does not fail, Add hands it to block processing, returns
\* success and marks it known, whatever the processing outcome; the engine is
\* left as block processing leaves it.  When the lookup fails Add returns the
\* lookup error and neither submits nor marks the block.
C12_NewBlockMarkedUnlessLookupFails ==
  (/\ last.op = "Add"
   /\ last.item.type = GossipItemTypeBlock
   /\ ~HaveBlock(last.pre.blockIndex, last.item.hash))
    => IF last.lookup
       THEN /\ last.submitted
            /\ last.err = "nil"
            /\ GossipID(last.item) \in bloom
            /\ EngineState = ProcessBlock(last.pre, last.item.hash)
       ELSE /\ ~last.submitted
            /\ last.err = "lookup"
            /\ bloom = last.filter
            /\ EngineState = last.pre

\* Add was given an invalid block: processing failed, the engine does not
\* store the block, yet Add returned success and the filter knows the block.
C12_Witness ==
  /\ last.op = "Add"
  /\ last.item.type = GossipItemTypeBlock
  /\ last.item.hash \in InvalidBlocks
  /\ last.lookup
  /\ last.submitted
  /\ BlockOutcome(last.pre.blockIndex, last.pre.orphans, last.pre.best,
                  last.item.hash) = "error"
  /\ last.err = "nil"
  /\ ~HaveBlock(blockIndex, last.item.hash)
  /\ GossipID(last.item) \in bloom

\* C13: Iterate presents transactions only, each of them in the pool, and
\* never a block; when the visitor never stops it, it presents every pool
\* transaction once.
C13_IterateVisitsOnlyPoolTxs ==
  last.op = "Iterate"
    => /\ \A i \in 1..Len(last.visited) :
            /\ last.visited[i].type = GossipItemTypeTx
            /\ HaveTransaction(mempool, last.visited[i].hash)
       /\ \A i, j \in 1..Len(last.visited) :
            last.visited[i] = last.visited[j] => i = j
       /\ last.stop = 0
            => {last.visited[i].hash : i \in 1..Len(last.visited)} = mempool

\* Iterate ran to the end after Add had taken a transaction and a block that
\* the engine stores: it presented something, and no block.
C13_Witness ==
  /\ last.op = "Iterate"
  /\ last.stop = 0
  /\ Len(last.visited) >= 1
  /\ \E t \in Txs : hashToID(t) \in added
  /\ \E b \in Blocks : hashToID(b) \in added /\ HaveBlock(blockIndex, b)
  /\ \A i \in 1..Len(last.visited) : last.visited[i].type # GossipItemTypeBlock

\* The filter holds more elements than its false-positive threshold allows.
OverThreshold(f) == Cardinality(f) > BloomMaxCount

\* C14: GetFilter never returns a filter that is past the reset threshold.
\* Within a generation the filter only grows, so a filter returned past the
\* threshold is of the generation in which the threshold was exceeded: the
\* claim asks for a generation with another salt, cleared.
C14_FilterResetAfterThreshold ==
  last.op = "GetFilter" => ~OverThreshold(last.filter)

\* C15: every item for which Add returned success tests positive in the
\* filter, in every state of the generation.
C15_NoFalseNegatives ==
  salt = FirstSalt => \A id \in added : id \in bloom

\* Add returned success for a transaction and a block in turn, other calls
\* followed, and both ids are in the filter.
C15_Witness ==
  /\ last.op \in {"Has", "Iterate", "GetFilter"}
  /\ \E t \in Txs : hashToID(t) \in added /\ hashToID(t) \in bloom
  /\ \E b \in Blocks : hashToID(b) \in added /\ hashToID(b) \in bloom
  /\ salt = FirstSalt

\* C16: for every item x with a payload, MarshalGossip(x) succeeds and is the
\* kind byte of x followed by the wire encoding of its payload, and
\* UnmarshalGossip of these bytes succeeds with an item of the kind and the
\* identity of x.
C16_CodecRoundTrip ==
  (wire.op = "Marshal" /\ wire.item \in Items)
    => /\ wire.err = "nil"
       /\ Head(wire.bytes) = wire.item.type
       /\ Tail(wire.bytes) = IF wire.item.type = GossipItemTypeTx
                             THEN TxEncode(wire.item.hash)
                             ELSE BlockEncode(wire.item.hash)
       /\ UnmarshalGossip(wire.bytes).err = "nil"
       /\ UnmarshalGossip(wire.bytes).item.type = wire.item.type
       /\ GossipID(UnmarshalGossip(wire.bytes).item) = GossipID(wire.item)

\* A block carrying a transaction has been marshalled, and the bytes
\* unmarshal to a block.
C16_Witness ==
  /\ wire.op = "Marshal"
  /\ wire.item.type = GossipItemTypeBlock
  /\ BlockTxs(wire.item.hash) # {}
  /\ Len(wire.bytes) = 1 + HeaderWidth + 1 + TxWidth
  /\ UnmarshalGossip(wire.bytes).item = wire.item

\* C17: UnmarshalGossip returns an error exactly when it returns no item; it
\* returns an error for empty input, for a first byte that is neither
\* discriminator and for a payload its decoder rejects, and an item when the
\* discriminator is known and the payload decodes.
C17_UnmarshalErrors ==
  wire.op = "Unmarshal"
    => /\ wire.err # "nil" <=> wire.item = NilItem
       /\ wire.err # "nil" <=>
            \/ Len(wire.data) = 0
            \/ /\ Len(wire.data) > 0
               /\ \/ Head(wire.data) \notin {GossipItemTypeTx, GossipItemTypeBlock}
                  \/ /\ Head(wire.data) = GossipItemTypeTx
                     /\ TxDecode(Tail(wire.data)).err # "nil"
                  \/ /\ Head(wire.data) = GossipItemTypeBlock
                     /\ BlockDecode(Tail(wire.data)).err # "nil"
       /\ wire.err = "nil" => wire.item.type = Head(wire.data)

\* UnmarshalGossip was given a block discriminator followed by a block whose
\* transactions are cut short, and returned an error and no item.
C17_Witness ==
  /\ wire.op = "Unmarshal"
  /\ Len(wire.data) > 1 + HeaderWidth
  /\ Head(wire.data) = GossipItemTypeBlock
  /\ wire.data[1 + HeaderWidth + 1] > 0
  /\ wire.err = "decode"
  /\ wire.item = NilItem

\* C18: ParseBlock returns an adapter exactly when it returns no error, and
\* then the bytes decoded, the engine processed the block without error,
\* the block is read back from the store of all branches and the adapter is
\* the block's; it returns an error when the bytes do not decode, when
\* processing fails and when the engine made the block an orphan.
C18_ParseBlockOnlyValidated ==
  vmcall.op = "ParseBlock"
    => LET d == BlockDecode(vmcall.data)
           pre == vmcall.pre
       IN /\ vmcall.err = "nil" <=> vmcall.adapter # NilAdapter
          /\ vmcall.err = "nil"
               => /\ d.err = "nil"
                  /\ BlockOutcome(pre.blockIndex, pre.orphans, pre.best, d.hash)
                       \in {"main", "side"}
                  /\ BlockByHashAny(blockIndex, d.hash)
                  /\ vmcall.adapter.id = hashToID(d.hash)
          /\ d.err # "nil" => vmcall.err # "nil"
          /\ (d.err = "nil" /\ ~BlockByHashAny(blockIndex, d.hash))
               => vmcall.err # "nil"
          /\ (d.err = "nil" /\ BlockOutcome(pre.blockIndex, pre.orphans,
                                            pre.best, d.hash) = "error")
               => vmcall.err # "nil"

\* ParseBlock was given a block on a side branch and returned its adapter;
\* the engine stores the block and the best block is another one.
C18_Witness ==
  /\ vmcall.op = "ParseBlock"
  /\ vmcall.err = "nil"
  /\ vmcall.adapter.id # ZeroHash
  /\ HaveBlock(blockIndex, idToHash(vmcall.adapter.id))
  /\ BlockOutcome(vmcall.pre.blockIndex, vmcall.pre.orphans, vmcall.pre.best,
                  idToHash(vmcall.adapter.id)) = "side"
  /\ best # idToHash(vmcall.adapter.id)

\* C19: a BuildBlock call that has returned gave a block or an error, never
\* both; it gave an error when no mining address is configured, when there
\* is no template, when the engine rejected the block of the template and
\* when the engine made it an orphan; a block it gave is stored by the engine
\* and is no orphan.
C19_BuildBlockBlockOrError ==
  (build.pc = "idle" /\ build.res # "none")
    => /\ build.res \in {"block", "error"}
       /\ build.res = "block" <=> build.blk # ZeroHash
       /\ build.res = "block" <=> build.err = "nil"
       /\ build.res = "block"
            => /\ HaveBlock(blockIndex, build.blk)
               /\ build.blk \notin orphans
               /\ build.blk \notin InvalidBlocks
               /\ build.blk = build.tmpl
               /\ Len(miningAddrs) > 0
       /\ Len(miningAddrs) = 0 => build.res = "error"
       /\ build.err = "template" => build.res = "error"
       /\ (build.tmpl # ZeroHash /\ build.tmpl \in InvalidBlocks)
            => build.res = "error"
       /\ build.err = "orphan"
            => build.res = "error" /\ build.tmpl # ZeroHash

\* BuildBlock returned an error for a generated block whose parent the engine
\* does not know: the block sits in the orphan pool.
C19_Witness ==
  /\ build.pc = "idle"
  /\ build.res = "error"
  /\ build.err = "orphan"
  /\ build.tmpl \in orphans
  /\ build.blk = ZeroHash

\* C20: after Accept(b) the last accepted and the preferred block are b;
\* LastAccepted returns the block of the latest Accept, or the best block the
\* engine had at initialization when there was none.
C20_AcceptSetsLastAccepted ==
  /\ vmcall.op = "Accept"
       => lastAccepted = vmcall.acc /\ preferred = vmcall.acc
  /\ vmcall.op = "LastAccepted" => vmcall.res = vmcall.acc
  /\ lastAccepted = vmcall.acc

\* LastAccepted was called after an Accept and a SetPreference to another
\* block, and returned the accepted block.
C20_Witness ==
  /\ vmcall.op = "LastAccepted"
  /\ vmcall.res # hashToID(Genesis)
  /\ vmcall.res = vmcall.acc
  /\ preferred # vmcall.res

\* ------------------------------------------------------------------------
\* Properties of the delay computation and of the delay task
\* ------------------------------------------------------------------------

Max0(x) == IF x > 0 THEN x ELSE 0

\* The delay the builder owes at this instant.
DelayOwed ==
  IF lastBuildTime = ZeroTime THEN 0
  ELSE IF best = lastBuildParentHash
  THEN Max0(lastBuildTime + RetryDelay - now)
  ELSE Max0(lastBuildTime + TargetBlockTime - now)

\* This step is scheduleBlockBuild passing from getCurrentBlock and
\* calculateBuildingDelay to the timer (u.pc = "timer") or straight to the
\* re-check (u.pc = "check"); s is the goroutine before, u after.
DelayComputed(s, u) ==
  /\ s \in BagToSet(tasks)
  /\ s.pc = "start"
  /\ u.pc \in {"timer", "check"}
  /\ u.cur = s.cur
  /\ tasks' = (tasks (-) SetToBag({s})) (+) SetToBag({u})

\* C21: calculateBuildingDelay returns 0 when no attempt is recorded, else
\* max(0, lastBuildTime + RetryDelay - now) when the best block is
\* lastBuildParentHash and max(0, lastBuildTime + TargetBlockTime - now)
\* otherwise; it is never negative.  Read off the goroutine that applies it:
\* its timer is due at now plus that delay, and it skips the timer exactly
\* when the delay is 0.
C21_DelayFormula ==
  [][\A s \in BagToSet(tasks) : \A u \in BagToSet(tasks') :
       DelayComputed(s, u)
         => /\ calculateBuildingDelay(best) = DelayOwed
            /\ calculateBuildingDelay(best) >= 0
            /\ u.due = now + DelayOwed
            /\ (u.pc = "timer") <=> (DelayOwed > 0)]_vars

\* A goroutine waits the rest of the target interval after a build whose
\* block moved the best block, begun strictly inside that interval.
C21_Witness ==
  /\ lastBuildTime # ZeroTime
  /\ best # lastBuildParentHash
  /\ now > lastBuildTime
  /\ \E t \in BagToSet(tasks) :
       /\ t.pc = "timer"
       /\ t.due = TimeAdd(lastBuildTime, TargetBlockTime)
       /\ t.due > now

\* This step is one scheduleBlockBuild goroutine moving from s to u.
TaskMoved(s, u) ==
  /\ s \in BagToSet(tasks)
  /\ u.cur = s.cur
  /\ u.pc # s.pc
  /\ tasks' = (tasks (-) SetToBag({s})) (+) SetToBag({u})

\* This step is the scheduleBlockBuild goroutine s returning.
TaskReturned(s) ==
  /\ s \in BagToSet(tasks)
  /\ tasks' = tasks (-) SetToBag({s})

\* C22: a scheduleBlockBuild goroutine whose delay is over and that finds
\* the mempool empty at its re-check sends nothing to toEngine and goes on to
\* clear hasPendingTxs, which is false when it returns; a notification is
\* sent only by a goroutine at its re-check, with the mempool non-empty.
C22_EmptyRecheckNoNotice ==
  [][/\ \A s \in BagToSet(tasks) :
          (s.pc = "check" /\ ~needToBuild /\ (TaskReturned(s) \/ \E u \in BagToSet(tasks') : TaskMoved(s, u)))
            => /\ toEngine' = toEngine
               /\ dropped' = dropped
               /\ \E u \in BagToSet(tasks') : TaskMoved(s, u) /\ u.pc = "clear"
     /\ \A s \in BagToSet(tasks) :
          (s.pc = "clear" /\ TaskReturned(s))
            => ~hasPendingTxs' /\ toEngine' = toEngine
     /\ toEngine' > toEngine
          => /\ needToBuild
             /\ \E s \in BagToSet(tasks) : s.pc = "check" /\ TaskReturned(s)]_vars

\* The goroutine of the current window waited on its timer, found the
\* mempool empty and is about to clear the flag; nothing was sent.
C22_Witness ==
  /\ ~needToBuild
  /\ hasPendingTxs
  /\ window.notes = 0
  /\ toEngine = 0
  /\ \E t \in CurTasks : t.pc = "clear" /\ t.due > lastBuildTime /\ lastBuildTime # ZeroTime

\* C23: when a scheduleBlockBuild goroutine returns after its notification
\* (sent, or dropped on a full toEngine), hasPendingTxs is false, so that the
\* next transaction-accepted event handled by the listener starts a new
\* goroutine.
C23_NotifiedTaskLeavesIdle ==
  [][/\ \A s \in BagToSet(tasks) :
          (s.pc = "check" /\ s.cur /\ TaskReturned(s)) => ~hasPendingTxs'
     /\ (window.notes > 0 /\ AliveInWindow = 0 /\ Registered = 0
           /\ build.pc = "idle" /\ txSubmitChan' = txSubmitChan - 1)
          => sig'["listener"] = "go"]_vars

\* signalCanBuild calls that are past the test-and-set and are still to
\* start their goroutine.
ToSpawn == Cardinality({c \in Callers : sig[c] # "no"})

\* C24: when handleBuildAttempt finds the mempool non-empty, its
\* signalCanBuild leaves the builder Pending without a further
\* transaction-accepted event: hasPendingTxs is true and a scheduleBlockBuild
\* goroutine is registered or running, so that a notification is attempted.
C24_SelfRetrigger ==
  [][(build.pc = "signal" /\ build'.pc = "build")
       => /\ hasPendingTxs'
          /\ ToSpawn' + BagCardinality(tasks') >= 1]_vars

\* ------------------------------------------------------------------------
\* Properties of the build attempt record
\* ------------------------------------------------------------------------

C26_RetriggerUsesNewRecord ==
  [][\A s \in BagToSet(tasks) : \A u \in BagToSet(tasks') :
       (DelayComputed(s, u) /\ s.cur /\ window.by = "build")
         => /\ lastBuildTime # ZeroTime
            /\ window.at # ZeroTime
            /\ lastBuildTime >= window.at
            /\ \/ /\ lastBuildTime = window.at
                  /\ lastBuildParentHash = window.parent
               \/ /\ lastBuildTime = build.at
                  /\ lastBuildParentHash = build.parent
            /\ u.due = now + calculateBuildingDelay(best)
            /\ u.due >= TimeAdd(window.at, IF best = lastBuildParentHash
                                           THEN RetryDelay ELSE TargetBlockTime)]_vars

\* The attempt built a block, so the best block moved, and the goroutine it
\* started waits the target interval counted from the attempt.
C26_Witness ==
  /\ window.by = "build"
  /\ lastBuildTime = window.at
  /\ lastBuildParentHash = window.parent
  /\ best # window.parent
  /\ build.res = "block"
  /\ \E t \in CurTasks : t.pc = "timer" /\ t.due = TimeAdd(window.at, TargetBlockTime)

\* C27: a scheduleBlockBuild goroutine whose getCurrentBlock fails returns
\* without sending to toEngine and with hasPendingTxs cleared; the next
\* transaction-accepted event the listener handles with the flag clear sets
\* the flag again and registers a new goroutine.
C27_LookupFailureAborts ==
  [][/\ \A s \in BagToSet(tasks) :
          (s.pc = "start" /\ TaskReturned(s))
            => /\ ~hasPendingTxs'
               /\ toEngine' = toEngine
               /\ dropped' = dropped
               /\ window'.notes = window.notes
     /\ (~hasPendingTxs /\ txSubmitChan' = txSubmitChan - 1)
          => /\ hasPendingTxs'
             /\ sig'["listener"] = "go"
             /\ window'.by = "listener"
             /\ window'.tasks = 0]_vars

\* Two transactions were accepted and no BuildBlock call was made: the
\* goroutine of the first window is gone without a notification, which only
\* the failed lookup explains, and the second event opened a window of its
\* own whose goroutine the listener is about to start.
C27_Witness ==
  /\ mempool = {1, 2}
  /\ txSubmitChan = 0
  /\ builds = 0
  /\ toEngine = 0
  /\ ~dropped
  /\ tasks = EmptyBag
  /\ hasPendingTxs
  /\ window.by = "listener"
  /\ window.events = 0
  /\ sig["listener"] = "go"

\* ------------------------------------------------------------------------
\* Properties of waitForNeedToBuild and of cancellation
\* ------------------------------------------------------------------------

\* C28: waitForNeedToBuild leaves its select, to re-check the loop condition
\* or to return after a cancellation or a shutdown, only when the bridging
\* goroutine of that iteration has closed signaled and is over; when it
\* returns nil from the loop, and everywhere outside the wait, no bridging
\* goroutine is outstanding.
C28_BridgeJoinedBeforeReturn ==
  [][\A w \in Waiters :
       /\ (waiters[w].pc \in {"select", "joinCtx", "joinShutdown"}
             /\ waiters'[w].pc \in {"loop", "calc", "idle"})
            => waiters[w].bridge = "closed"
       /\ waiters[w].pc \in {"idle", "loop", "calc", "timer"}
            => waiters[w].bridge = "none"
       /\ waiters[w].pc \in {"select", "joinCtx", "joinShutdown"}
            => waiters[w].bridge # "none"]_vars

\* A call was cancelled inside waitForNeedToBuild, before any delay was
\* computed, and has returned the context's error.
C28_Witness ==
  \E w \in Waiters :
    /\ waiters[w].pc = "idle"
    /\ waiters[w].res = "ctxErr"
    /\ waiters[w].cancelled
    /\ waiters[w].due = ZeroTime
    /\ waiters[w].bridge = "none"

\* C29 as stated: a waitForEvent call that returns the error of its
\* cancelled context has left hasPendingTxs as it found it.
C29_CancelledCallKeepsFlag ==
  \A w \in Waiters :
    (waiters[w].pc = "idle" /\ waiters[w].res = "ctxErr")
      => ~waiters[w].cleared

\* This step is taken by the waitForEvent call w.
CallStep(w) ==
  \/ waiters'[w].pc # waiters[w].pc
  \/ waiters'[w].cancelled # waiters[w].cancelled

\* C29, amended: cancelling the context of a waitForEvent call, and every
\* step the call takes from then on, leaves the scheduleBlockBuild
\* goroutines, the signalCanBuild calls in progress, toEngine, lastBuildTime
\* and lastBuildParentHash as they are.  hasPendingTxs is left alone by the
\* cancellation branches; the call changes it in one place only, where
\* waitForNeedToBuild ends its loop and clears it, so a call cancelled in the
\* delay that follows returns with the flag cleared.
C29_CancelTouchesOnlyTheCall ==
  [][\A w \in Waiters :
       (CallStep(w) /\ waiters'[w].cancelled)
         => /\ UNCHANGED <<lastBuildTime, lastBuildParentHash, tasks, sig,
                           listener, toEngine, txSubmitChan, window>>
            /\ hasPendingTxs' # hasPendingTxs
                 => /\ waiters[w].pc = "loop"
                    /\ waiters'[w].pc = "calc"
                    /\ ~hasPendingTxs']_vars

\* A call made with the flag set was cancelled in its delay and returned the
\* context's error: the flag is cleared, and the goroutine that was waiting
\* on its timer is still waiting.
C29_Witness ==
  \E w \in Waiters :
    /\ waiters[w].pc = "idle"
    /\ waiters[w].res = "ctxErr"
    /\ waiters[w].due # ZeroTime
    /\ waiters[w].cleared
    /\ ~hasPendingTxs
    /\ \E t \in BagToSet(tasks) : t.pc = "timer" /\ t.due > now

\* ------------------------------------------------------------------------
\* Properties of shutdown
\* ------------------------------------------------------------------------

\* The scheduleBlockBuild goroutines at position p.
TasksAt(ts, p) ==
  BagCardinality([t \in {u \in BagToSet(ts) : u.pc = p} |-> ts[t]])

\* The listener and every scheduleBlockBuild goroutine are over and none is
\* to be started.
AllExited ==
  /\ listener # "run"
  /\ tasks = EmptyBag
  /\ ToSpawn = 0

\* C30: after shutdownChan is closed the listener and every
\* scheduleBlockBuild goroutine eventually return; the goroutines that were
\* blocked on their timer when it was closed are all woken by it, and such a
\* goroutine returns without a send to toEngine and without another step.
C30_ShutdownStopsGoroutines ==
  /\ [](shutdown => TasksAt(tasks, "blocked") = 0)
  /\ [][/\ (~shutdown /\ shutdown')
             => TasksAt(tasks', "aborted") = TasksAt(tasks, "blocked")
        /\ \A s \in BagToSet(tasks) :
             (s.pc = "aborted" /\ CopiesIn(s, tasks') # CopiesIn(s, tasks))
               => /\ TaskReturned(s)
                  /\ toEngine' = toEngine
                  /\ dropped' = dropped
                  /\ window' = window]_vars
  /\ shutdown ~> AllExited

\* Shutdown found a goroutine blocked on a timer that had not fired: it is
\* woken to return, and nothing was sent.
C30_Witness ==
  /\ shutdown
  /\ toEngine = 0
  /\ ~dropped
  /\ needToBuild
  /\ \E t \in BagToSet(tasks) : t.pc = "aborted" /\ t.due > now

\* ------------------------------------------------------------------------
\* Properties of the pending signal, of Add's relays and of Iterate
\* ------------------------------------------------------------------------

\* C39: whenever a WaitForEvent call returns the pending-transactions
\* signal, the engine's pool holds at least one transaction at that moment.
C39_PendingSignalMeansPoolNonEmpty ==
  [][\A w \in Waiters :
       (waiters[w].pc # "idle" /\ waiters'[w].pc = "idle"
          /\ waiters'[w].res = "PendingTxs")
         => MiningDescs(mempool') # {}]_vars

\* C33: when Add submits a new transaction and the engine accepts it, the
\* transaction is marked known in the filter, and every transaction that
\* entered the pool with it (the transaction itself and the held dependents
\* the engine accepted with it) is handed to the push gossiper.
C33_AcceptedTxMarkedAndRelayed ==
  [][(last'.op = "Add" /\ last'.item.type = GossipItemTypeTx
        /\ last'.submitted /\ last'.err = "nil")
       => /\ GossipID(last'.item) \in bloom'
          /\ last'.item.hash \in mempool' \ mempool
          /\ \A t \in mempool' \ mempool : hashToID(t) \in pushed']_vars

\* Add of transaction 1 was accepted while the engine held its dependent,
\* transaction 2: both entered the pool and both are in the push queue.
C33_Witness ==
  /\ last.op = "Add"
  /\ last.item.type = GossipItemTypeTx
  /\ last.submitted
  /\ last.err = "nil"
  /\ Cardinality(mempool \ last.pre.mempool) = 2
  /\ last.pre.txOrphans # {}
  /\ txOrphans = {}
  /\ GossipID(last.item) \in bloom
  /\ \A t \in mempool \ last.pre.mempool : hashToID(t) \in pushed

\* C34: Add of a transaction the pool already holds marks it known in the
\* filter and returns success; it does not submit the transaction to the
\* engine, leaves the engine as it was and hands nothing to the push
\* gossiper.
C34_KnownTxOnlyMarked ==
  [][(last'.op = "Add" /\ last'.item.type = GossipItemTypeTx
        /\ HaveTransaction(mempool, last'.item.hash))
       => /\ bloom' = bloom \cup {GossipID(last'.item)}
          /\ last'.err = "nil"
          /\ ~last'.submitted
          /\ pushed' = pushed
          /\ UNCHANGED <<engineVars, txOrphans, txSubmitChan>>]_vars

\* Add was given a transaction that had reached the pool by local
\* submission and was not in the filter: it is marked now, the call
\* returned success, and nothing was announced.
C34_Witness ==
  /\ last.op = "Add"
  /\ last.item.type = GossipItemTypeTx
  /\ HaveTransaction(last.pre.mempool, last.item.hash)
  /\ GossipID(last.item) \notin last.filter
  /\ GossipID(last.item) \in bloom
  /\ last.err = "nil"
  /\ ~last.submitted
  /\ GossipID(last.item) \notin pushed
  /\ EngineState = last.pre

\* C36: Iterate honours early termination: once the visitor has returned
\* false on an item, Iterate returns, so the visitor has been called for
\* that item and the ones before it and for no further item.
C36_IterateStopsAtFalse ==
  (last.op = "Iterate" /\ last.stop \in 1..Cardinality(TxDescs(mempool)))
    => /\ Len(last.visited) = last.stop
       /\ \A i, j \in 1..Len(last.visited) :
            last.visited[i] = last.visited[j] => i = j

\* The visitor returned false on the first of two pool transactions.
C36_Witness ==
  /\ last.op = "Iterate"
  /\ last.stop = 1
  /\ Cardinality(TxDescs(mempool)) = 2
  /\ Len(last.visited) = 1

\* ------------------------------------------------------------------------
\* Properties of ParseBlock on known blocks
\* ------------------------------------------------------------------------

\* C40: ParseBlock round-trips the blocks the node already knows: given the
\* bytes of a block that GetBlock returns, it succeeds and returns an adapter
\* with the identity, parent identity and height of that block, also when it
\* is called again on the same bytes.
C40_ParseKnownBlockRoundTrips ==
  (vmcall.op = "ParseBlock"
     /\ \E b \in vmcall.pre.blockIndex : vmcall.data = BlockEncode(b))
    => /\ vmcall.err = "nil"
       /\ vmcall.adapter =
            getBlock(vmcall.pre.blockIndex, hashToID(BlockDecode(vmcall.data).hash))

\* ------------------------------------------------------------------------
\* Properties of the locks
\* ------------------------------------------------------------------------

\* A step of another call than the Accept in progress reads or writes the
\* preferred or the last-accepted identity.
OtherAccess ==
  /\ accepting' = accepting
  /\ \/ preferred' # preferred
     \/ lastAccepted' # lastAccepted
     \/ /\ vmcall' # vmcall
        /\ vmcall'.op \in {"SetPreference", "LastAccepted", "HealthCheck"}

\* C31: the preferred and last-accepted identities are accessed only under
\* the VM's block lock: while Accept holds the lock, no SetPreference,
\* LastAccepted or HealthCheck reads or writes them.
C31_NoAccessOverlapsAccept ==
  [][blocksMu # "free" => ~OtherAccess]_vars

\* A step that reads the filter: a goroutine of the block-connected callback
\* makes its membership test, or GetFilter marshals the filter.
FilterRead ==
  \/ \E g \in BagToSet(relays) : relays' = relays (-) SetToBag({g})
  \/ last' # last /\ last'.op = "GetFilter"

\* C32: every access to the dedup filter is made under the lock of the dedup
\* set: no read of the filter, by GetFilter or by the membership test of the
\* block-connected callback, runs while an Add holds the exclusive lock.
C32_FilterReadsExcludeAdd ==
  [][FilterRead => lock = "free"]_vars

\* C37: a block that reaches the node through Add is never handed to the
\* push gossiper by the block-connected callback.
C37_PeerBlockNeverRelayed ==
  \A b \in Blocks : hashToID(b) \notin pushed

\* A gossip loop begins a round of its gossiper.
GossipRound ==
  \E g \in BagToSet(loops) :
    /\ g.pc = "select"
    /\ loops' = (loops (-) SetToBag({g})) (+) SetToBag({[g EXCEPT !.pc = "gossip"]})

\* C35: Shutdown cancels the gossip context of the loops SetState(NormalOp)
\* started, marks the VM stopped and returns only when no gossip goroutine
\* is left, no gossip round begins in a stopped VM, and a Shutdown call on a
\* stopped VM returns nil and changes nothing.
C35_ShutdownStopsGossipLoops ==
  [][/\ (stopping.pc = "cancel" /\ stopping'.pc # "cancel" /\ gossipCtx # 0)
          => gossipCtx \in cancelled'
     /\ stopped' => (loops' = EmptyBag /\ shutdownWg' = 0)
     /\ (~stopped /\ stopped') => (loops = EmptyBag /\ stopping'.res = "nil")
     /\ GossipRound => ~stopped
     /\ (stopped /\ stopping'.n # stopping.n)
          => /\ stopping'.pc = "idle"
             /\ stopping'.res = "nil"
             /\ UNCHANGED <<shutdown, stopped, gossipCtx, cancelled,
                            shutdownWg, loops, bootstrapped, listener>>]_vars

\* Both loops were started once, Shutdown cancelled them and returned, and
\* a second Shutdown call returned nil.
C35_Witness ==
  /\ stopped
  /\ listener # "off"
  /\ gossipCtx = 1
  /\ 1 \in cancelled
  /\ loops = EmptyBag
  /\ stopping = [n |-> 2, pc |-> "idle", res |-> "nil"]

\* C38: whatever SetState calls came before it, a Shutdown call returns.
C38_ShutdownTerminates ==
  (stopping.pc = "cancel") ~> stopped

====
